---- MODULE Spec2Model ----
(***************************************************************************)
(* Booking allocator and wallet ledger of CustomZone.                      *)
(*                                                                         *)
(* The repository holds two implementations of each store:                 *)
(*   - the database-backed wallet (src/lib/server/inboxStore.ts, 367-1020) *)
(*     and booking route (src/unnamed/part_005), whose handlers await the  *)
(*     database between steps, so that requests interleave at every await; *)
(*   - the file-backed wallet and tournament stores (src/unnamed/part_010),*)
(*     whose operations run one at a time under withWriteLock.             *)
(* Each implementation has its own specification below; the variables of   *)
(* the other implementations stay at their initial value.                  *)
(***************************************************************************)
EXTENDS Integers, Sequences, FiniteSets, Bags, TLC

(***************************************************************************)
(* Bounds of the model.                                                    *)
(***************************************************************************)
\* wallet operations started in one behaviour (database-backed wallet)
WMaxOps == 2
\* storage calls that answer with an error in one behaviour
WMaxFaults == 1

\* requests sent to the database-backed booking route in one behaviour
BMaxOps == 2
\* operations run on the file-backed tournament store in one behaviour
FMaxOps == 2

(***************************************************************************)
(* Program constants and input alphabets.                                  *)
(***************************************************************************)
MIN_WITHDRAWAL_AMOUNT == 200

\* BR_MODE_SLOTS
SOLO_SLOTS == 48
DUO_SLOTS == 26
SQUAD_SLOTS == 12

Users == {"u1", "u2"}

\* A transaction id as typed: a base text, possibly upper-cased, possibly
\* with white space around or inside it.  base "" is a blank id.
TxnInputs ==
    { [base |-> "x", upper |-> FALSE, pad |-> FALSE, inner |-> FALSE],
      [base |-> "x", upper |-> TRUE,  pad |-> TRUE,  inner |-> TRUE],
      [base |-> "",  upper |-> FALSE, pad |-> TRUE,  inner |-> FALSE] }

\* amounts a caller submits
Amounts == {100, 200}

\* input.trim().replace(/\s+/g, "").toLowerCase()
normalizeTxnId(input) ==
    [base |-> input.base, upper |-> FALSE, pad |-> FALSE, inner |-> FALSE]

\* String(txnIdInput).trim(): the white space around the id goes, the white
\* space inside it and its case stay
trimTxnId(input) == [input EXCEPT !.pad = FALSE]

isBlankTxn(input) == input.base = ""

Max(a, b) == IF a >= b THEN a ELSE b
Min(a, b) == IF a <= b THEN a ELSE b

\* A withdrawal amount is whole, or whole + 0.5 when half (Number.isInteger
\* tells them apart); a UPI id is a text around which the input may carry
\* spaces.
trimUpi(upiIdInput) == [upiIdInput EXCEPT !.pad = FALSE]

includesAt(upiId) == upiId.base = "name@bank"

WithdrawalInputs ==
    { [upiIdInput |-> [base |-> "name@bank", pad |-> TRUE],
       amountInput |-> [whole |-> 200, half |-> FALSE]],
      [upiIdInput |-> [base |-> "name@bank", pad |-> TRUE],
       amountInput |-> [whole |-> 100, half |-> FALSE]],
      [upiIdInput |-> [base |-> "name@bank", pad |-> TRUE],
       amountInput |-> [whole |-> 200, half |-> TRUE]],
      [upiIdInput |-> [base |-> "name@bank", pad |-> TRUE],
       amountInput |-> [whole |-> 0, half |-> FALSE]],
      [upiIdInput |-> [base |-> "", pad |-> TRUE],
       amountInput |-> [whole |-> 200, half |-> FALSE]],
      [upiIdInput |-> [base |-> "name", pad |-> FALSE],
       amountInput |-> [whole |-> 200, half |-> FALSE]] }

TIds == {"t1", "t2"}

\* A player name as typed: a base text, possibly with upper-case letters,
\* possibly with white space around it.  base "" is a blank name.
BlankName == [base |-> "", upper |-> FALSE, pad |-> FALSE]

NameA == [base |-> "a", upper |-> FALSE, pad |-> FALSE]
NameAUpperPadded == [base |-> "a", upper |-> TRUE, pad |-> TRUE]
NameB == [base |-> "b", upper |-> FALSE, pad |-> FALSE]
NameC == [base |-> "c", upper |-> FALSE, pad |-> FALSE]
NameSpaces == [base |-> "", upper |-> FALSE, pad |-> TRUE]

\* playerName values of a booking request
NameInputs == { NameA, NameB, NameSpaces }

\* teamMembers values of a booking or update request
TeamInputs ==
    { << >>, <<NameA>>, <<NameB>>, <<NameC>>, <<NameSpaces>>,
      <<NameAUpperPadded, NameB>>, <<NameA, NameAUpperPadded>> }

\* String(v).trim()
trimName(v) == IF v.base = "" THEN BlankName ELSE [v EXCEPT !.pad = FALSE]

\* v.trim().toLowerCase()
normalizePlayerName(v) ==
    IF v.base = "" THEN BlankName ELSE [base |-> v.base, upper |-> FALSE, pad |-> FALSE]

\* the elements of q at the indexes in keep, in order (Array.prototype.filter)
RECURSIVE PickIndexes(_, _, _)
PickIndexes(q, keep, i) ==
    IF i > Len(q) THEN << >>
    ELSE (IF i \in keep THEN <<q[i]>> ELSE << >>) \o PickIndexes(q, keep, i + 1)

\* normalizeTeamMembers, first half: trim, drop blanks, fall back to the captain
cleanedNames(members, fallbackFirstName) ==
    LET nonBlank == SelectSeq([i \in 1..Len(members) |-> trimName(members[i])],
                              LAMBDA v : v # BlankName)
    IN IF Len(nonBlank) = 0 /\ trimName(fallbackFirstName) # BlankName
         THEN <<trimName(fallbackFirstName)>>
         ELSE nonBlank

\* normalizeTeamMembers without the filter on findIndex
dedupedNames_keepingAll(cleaned) == cleaned

\* normalizeTeamMembers, second half: keep the first occurrence of each
\* normalized name
dedupedNames(cleaned) ==
    PickIndexes(cleaned,
                { i \in 1..Len(cleaned) :
                    \A j \in 1..(i - 1) :
                        normalizePlayerName(cleaned[j]) # normalizePlayerName(cleaned[i]) },
                1)

\* Array.prototype.slice(0, n)
sliceFirst(q, n) == SubSeq(q, 1, Min(Len(q), n))

\* part_010 lines 939-958 (and the same function at 589-609)
normalizeTeamMembers(members, fallbackFirstName, teamSize) ==
    sliceFirst(dedupedNames(cleanedNames(members, fallbackFirstName)), Max(1, teamSize))

\* bookingContainsName looking at the captain only
bookingContainsName_captainOnly(booking, normalizedName) ==
    /\ normalizedName # BlankName
    /\ normalizePlayerName(booking.playerName) = normalizedName

\* part_010 lines 933-937
bookingContainsName(booking, normalizedName) ==
    /\ normalizedName # BlankName
    /\ \/ normalizePlayerName(booking.playerName) = normalizedName
       \/ \E i \in 1..Len(booking.teamMembers) :
              normalizePlayerName(booking.teamMembers[i]) = normalizedName

\* part_010 lines 960-965
getTeamSizeForTournament(t) ==
    IF t.matchType # "BR" THEN 1
    ELSE IF t.brMode = "DUO" THEN 2
    ELSE IF t.brMode = "SQUAD" THEN 4
    ELSE 1

(***************************************************************************)
(* State.                                                                  *)
(***************************************************************************)
VARIABLES
    \* ---- database-backed wallet (tables) ----
    wbal,       \* wallet_balance: user -> balance, NoRow when the row is absent
    wledger,    \* wallet_ledger: bag of [userId, type, amount, note]
    wadmin,     \* wallet_admin_txns: sequence of rows, id = index
    wwd,        \* wallet_withdrawals: sequence of rows, id = index
    \* ---- database-backed wallet (requests in flight) ----
    wreq,       \* process -> the call it runs and where it stands
    wops,       \* calls started so far
    wfaults,    \* storage errors injected so far
    wimpl,      \* which store modules hold the data: "supabase" or "file"
    \* ---- history of returned results (observation only) ----
    wnet,       \* user -> sum of credits minus debits of calls that returned ok
    wclaim,     \* claimCreditsByTxnId calls: results [ok, used, other], amount credited
    \* ---- file-backed tournament store (data/tournaments.db.json) ----
    ft,         \* tournaments: id -> record, for the ids that exist
    fb,         \* bookings, in the order they were pushed
    fnext,      \* next fresh booking id (crypto.randomUUID)
    fops,       \* operations run so far
    fout,       \* the last operation and what it returned
    \* ---- database-backed booking route (tables and requests in flight) ----
    dt,         \* tournaments: id -> row
    db,         \* bookings: set of rows
    dnext,      \* next id the bookings table hands out
    breq,       \* process -> the route request it runs and where it stands
    bops,       \* route requests started so far
    \* ---- the write queue of a file-backed store (one promise chain) ----
    writeQueue, \* the promise the module variable holds: 0 is Promise.resolve(),
                \* k the promise next.then(...) of the k-th withWriteLock call
    lockCalls,  \* the withWriteLock calls in the order they were made
    lockOrder   \* the calls in the order their operations were invoked

lvars == <<writeQueue, lockCalls, lockOrder>>

wvars == <<wbal, wledger, wadmin, wwd, wreq, wops, wfaults, wimpl, wnet, wclaim, lvars>>

fvars == <<ft, fb, fnext, fops, fout>>

bvars == <<dt, db, dnext, breq, bops>>

vars == <<wbal, wledger, wadmin, wwd, wreq, wops, wfaults, wimpl, wnet, wclaim,
          ft, fb, fnext, fops, fout, dt, db, dnext, breq, bops,
          writeQueue, lockCalls, lockOrder>>

NoRow == -1

\* the requests that can be in flight at once
WProcSet == {1, 2}

IdleReq ==
    [op |-> "none", pc |-> "idle", user |-> "", amount |-> 0, ref |-> 0,
     txn |-> [base |-> "", upper |-> FALSE, pad |-> FALSE, inner |-> FALSE],
     cur |-> 0, out |-> "", wrote |-> FALSE,
     \* observation only: the call's number in the order the calls came in,
     \* and the tables as the call found them (alone: no call has overlapped
     \* another one so far)
     n |-> 0,
     pre |-> [bal |-> [u \in Users |-> NoRow], admin |-> << >>, wd |-> << >>,
              alone |-> FALSE]]

\* The tables as earlier, completed calls left them: nothing stored yet; or
\* deposit "x" of 200 registered (registerIncomingPayment) and 200 credited
\* to u1 (adminCreditWallet); or, after that, u1's 200 withdrawn
\* (requestWithdrawal) and the request still PENDING; or, after that, the
\* request marked paid (markWithdrawalPaid), 200 credited to u1 once more and
\* withdrawn again.
PlainX == [base |-> "x", upper |-> FALSE, pad |-> FALSE, inner |-> FALSE]

DepositX == [txn_id |-> PlainX, amount |-> 200, status |-> "AVAILABLE",
             claimed_by_user_id |-> ""]

PrizeEntry == [userId |-> "u1", type |-> "CREDIT", amount |-> 200, note |-> <<"prize", 0>>]

WithdrawalEntry ==
    [userId |-> "u1", type |-> "DEBIT", amount |-> 200, note |-> <<"withdrawal", 1>>]

WSeeds ==
    { [bal |-> [u \in Users |-> NoRow], ledger |-> EmptyBag, admin |-> << >>,
       wd |-> << >>, net |-> [u \in Users |-> 0]],
      [bal |-> [u \in Users |-> IF u = "u1" THEN 200 ELSE NoRow],
       ledger |-> SetToBag({PrizeEntry}), admin |-> <<DepositX>>,
       wd |-> << >>, net |-> [u \in Users |-> IF u = "u1" THEN 200 ELSE 0]],
      [bal |-> [u \in Users |-> IF u = "u1" THEN 0 ELSE NoRow],
       ledger |-> SetToBag({PrizeEntry, WithdrawalEntry}), admin |-> <<DepositX>>,
       wd |-> <<[user_id |-> "u1", amount |-> 200, status |-> "PENDING"]>>,
       net |-> [u \in Users |-> 0]],
      [bal |-> [u \in Users |-> IF u = "u1" THEN 0 ELSE NoRow],
       ledger |-> SetToBag({PrizeEntry, WithdrawalEntry})
                    (+) SetToBag({PrizeEntry, [WithdrawalEntry EXCEPT !.note = <<"withdrawal", 2>>]}),
       admin |-> <<DepositX>>,
       wd |-> <<[user_id |-> "u1", amount |-> 200, status |-> "PAID"],
                [user_id |-> "u1", amount |-> 200, status |-> "PENDING"]>>,
       net |-> [u \in Users |-> 0]] }

WalletInit ==
    /\ \E s \in WSeeds :
         /\ wbal = s.bal
         /\ wledger = s.ledger
         /\ wadmin = s.admin
         /\ wwd = s.wd
         /\ wnet = s.net
    /\ wreq = [p \in WProcSet |-> IdleReq]
    /\ wops = 0
    /\ wfaults = 0
    /\ wclaim = [ok |-> 0, used |-> 0, other |-> 0, credited |-> 0]

\* Two tournaments as createTournamentRecord leaves them: a CS match with 2
\* slots and an entry fee, and a BR DUO match (26 slots, fixed by the mode)
\* whose start time does not parse.  room stands for room.id || room.pass;
\* published is observation only: whether a room was ever stored.
FSeedTournaments ==
    [t \in TIds |->
        IF t = "t1"
          THEN [id |-> t, matchType |-> "CS", brMode |-> "NONE", maxSlots |-> 2,
                manualSoldSlots |-> 0, bookedCount |-> 0, status |-> "OPEN",
                room |-> FALSE, entryFee |-> 100, dateTime |-> "valid",
                published |-> FALSE]
          ELSE [id |-> t, matchType |-> "BR", brMode |-> "DUO", maxSlots |-> DUO_SLOTS,
                manualSoldSlots |-> 0, bookedCount |-> 0, status |-> "OPEN",
                room |-> FALSE, entryFee |-> 0, dateTime |-> "unparsable",
                published |-> FALSE]]

\* Stores left by earlier calls:
\*   the fresh store;
\*   after setTournamentManualSoldSlots("t1", 1);
\*   after that and createBookingAndIncrement("t1", "u1", "a"), which took
\*     slot bookedCount + 1 = 2 and filled the tournament;
\*   after createBookingAndIncrement("t2", "u1", _, <<"  A ", "b">>);
\*   the fresh store with t1 marked COMPLETED in the file;
\*   after setTournamentRoom("t1", {id, pass}).
FSeeds ==
    { [tournaments |-> FSeedTournaments, bookings |-> << >>, next |-> 1],
      [tournaments |-> [FSeedTournaments EXCEPT !["t1"].manualSoldSlots = 1,
                                                !["t1"].bookedCount = 1],
       bookings |-> << >>, next |-> 1],
      [tournaments |-> [FSeedTournaments EXCEPT !["t1"].manualSoldSlots = 1,
                                                !["t1"].bookedCount = 2,
                                                !["t1"].status = "FULL"],
       bookings |-> <<[id |-> 1, tournamentId |-> "t1", userId |-> "u1",
                       playerName |-> NameA, teamMembers |-> <<NameA>>,
                       teamSize |-> 1, slotNumber |-> 2]>>,
       next |-> 2],
      [tournaments |-> [FSeedTournaments EXCEPT !["t2"].bookedCount = 1],
       bookings |-> <<[id |-> 1, tournamentId |-> "t2", userId |-> "u1",
                       playerName |-> [NameAUpperPadded EXCEPT !.pad = FALSE],
                       teamMembers |-> <<[NameAUpperPadded EXCEPT !.pad = FALSE], NameB>>,
                       teamSize |-> 2, slotNumber |-> 1]>>,
       next |-> 2],
      [tournaments |-> [FSeedTournaments EXCEPT !["t1"].status = "COMPLETED"],
       bookings |-> << >>, next |-> 1],
      [tournaments |-> [FSeedTournaments EXCEPT !["t1"].room = TRUE,
                                                !["t1"].published = TRUE],
       bookings |-> << >>, next |-> 1] }

\* no withWriteLock call made yet: writeQueue is Promise.resolve()
LockIdle ==
    /\ writeQueue = 0
    /\ lockCalls = << >>
    /\ lockOrder = << >>

FInit ==
    /\ LockIdle
    /\ \E s \in FSeeds :
         /\ ft = s.tournaments
         /\ fb = s.bookings
         /\ fnext = s.next
    /\ fops = 0
    /\ fout = [op |-> "none", ok |-> TRUE, reason |-> "", id |-> 0]

(***************************************************************************)
(* Database-backed wallet: src/lib/server/inboxStore.ts, lines 367-1020.   *)
(* Every supabase call is one step; a request keeps what it read in its    *)
(* own record (cur is the balance it read).                                *)
(***************************************************************************)
\* the tournament store takes no part
FUntouched ==
    /\ LockIdle
    /\ ft = FSeedTournaments
    /\ fb = << >>
    /\ fnext = 1
    /\ fops = 0
    /\ fout = [op |-> "none", ok |-> TRUE, reason |-> "", id |-> 0]

\* ---- database-backed booking route ----
\* tournaments rows: t1 is a CS match with 2 slots and an entry fee of 100,
\* t2 a BR DUO match with 26 slots and no fee; room stands for
\* Boolean(room_id || room_pass)
DSeedTournaments ==
    [t \in TIds |->
        IF t = "t1"
          THEN [id |-> t, match_type |-> "CS", br_mode |-> "NONE", max_slots |-> 2,
                manual_sold_slots |-> 0, booked_count |-> 1, status |-> "OPEN",
                room |-> FALSE, entry_fee |-> 100, date_time |-> "valid"]
          ELSE [id |-> t, match_type |-> "BR", br_mode |-> "DUO", max_slots |-> DUO_SLOTS,
                manual_sold_slots |-> 0, booked_count |-> 0, status |-> "OPEN",
                room |-> FALSE, entry_fee |-> 0, date_time |-> "unparsable"]]

\* the booking u1 made of slot 1 of t1 under the name "c"
DSeedBooking ==
    [id |-> 1, tournament_id |-> "t1", user_id |-> "u1", player_name |-> NameC,
     team_members |-> <<NameC>>, team_size |-> 1, slot_number |-> 1]

NoTournamentRow ==
    [id |-> "", match_type |-> "", br_mode |-> "", max_slots |-> 0,
     manual_sold_slots |-> 0, booked_count |-> 0, status |-> "",
     room |-> FALSE, entry_fee |-> 0, date_time |-> ""]

\* the locals of a route request between two awaits, and what it returned
IdleBooking ==
    [pc |-> "idle", mode |-> "none", t |-> "", user |-> "", playerName |-> BlankName,
     input |-> << >>, members |-> << >>, trow |-> NoTournamentRow, slot |-> 0, id |-> 0,
     cnt |-> 0, late |-> FALSE, rb |-> FALSE, rbErr |-> FALSE, reason |-> "", out |-> "",
     \* body.manualSoldSlots of an admin PATCH
     manual |-> 0,
     \* observation only: balance when the request came in, whether that was
     \* below the entry fee, whether spendCredits wrote the balance, whether
     \* another request was in flight at the same time
     bal0 |-> 0, poor |-> FALSE, paid |-> FALSE, ovl |-> FALSE]

BUntouched ==
    /\ dt = DSeedTournaments
    /\ db = {}
    /\ dnext = 1
    /\ breq = [p \in WProcSet |-> IdleBooking]
    /\ bops = 0

\* u1 was credited 300 and paid the fee of 100 for the seeded booking; u2 has
\* no wallet_balances row
DSeedCredit == [userId |-> "u1", type |-> "CREDIT", amount |-> 300, note |-> <<"prize", 0>>]
DSeedDebit == [userId |-> "u1", type |-> "DEBIT", amount |-> 100, note |-> <<"debit", 0>>]

InitBookDb ==
    /\ dt = DSeedTournaments
    /\ db = {DSeedBooking}
    /\ dnext = 2
    /\ breq = [p \in WProcSet |-> IdleBooking]
    /\ bops = 0
    /\ wbal = [u \in Users |-> IF u = "u1" THEN 200 ELSE NoRow]
    /\ wledger = SetToBag({DSeedCredit, DSeedDebit})
    /\ wadmin = << >>
    /\ wwd = << >>
    /\ wreq = [p \in WProcSet |-> IdleReq]
    /\ wops = 0
    /\ wfaults = 0
    /\ wimpl = "supabase"
    /\ wnet = [u \in Users |-> IF u = "u1" THEN 200 ELSE 0]
    /\ wclaim = [ok |-> 0, used |-> 0, other |-> 0, credited |-> 0]
    /\ FUntouched

StorageError == "storage error"
NotEnough == "Not enough balance."
AlreadyUsed == "This transaction ID has already been used."
AlreadyPaid == "Request already marked paid."

\* the column wallet_admin_txns.txn_id_normalized of a stored row
txn_id_normalized(row) == normalizeTxnId(row.txn_id)

AdminRowsFor(normalized) ==
    { i \in 1..Len(wadmin) : txn_id_normalized(wadmin[i]) = normalized }

CanStart(p) ==
    /\ wimpl = "supabase"
    /\ wreq[p].pc \in {"idle", "done"}
    /\ wops < WMaxOps

\* a storage call answers with an error (f) only while the budget lasts
FaultStep(f) ==
    /\ f => wfaults < WMaxFaults
    /\ wfaults' = IF f THEN wfaults + 1 ELSE wfaults

IsCreditOp(op) == op \in {"claim", "credit"}
IsDebitOp(op) == op \in {"spend", "withdraw"}

\* the request moves on to its next await
Goto(p, rec) ==
    /\ UNCHANGED <<wimpl, lvars, fvars, bvars>>
    /\ wreq' = [wreq EXCEPT ![p] = rec]
    /\ wnet' = wnet
    /\ wclaim' = IF rec.op = "claim" /\ rec.wrote /\ ~wreq[p].wrote
                   THEN [wclaim EXCEPT !.credited = @ + rec.amount]
                   ELSE wclaim

\* the request returns result r to its caller
Return(p, rec, r) ==
    /\ UNCHANGED <<wimpl, lvars, fvars, bvars>>
    /\ wreq' = [wreq EXCEPT ![p] =
                   [IdleReq EXCEPT !.pc = "done", !.op = rec.op, !.user = rec.user,
                                   !.out = r, !.wrote = rec.wrote,
                                   !.ref = rec.ref, !.n = rec.n,
                                   !.amount = rec.amount,
                                   !.pre = [IdleReq.pre EXCEPT !.alone = rec.pre.alone]]]
    /\ wnet' = IF r = "ok" /\ IsCreditOp(rec.op)
                 THEN [wnet EXCEPT ![rec.user] = @ + rec.amount]
               ELSE IF r = "ok" /\ IsDebitOp(rec.op)
                 THEN [wnet EXCEPT ![rec.user] = @ - rec.amount]
               ELSE wnet
    /\ wclaim' = IF rec.op # "claim" THEN wclaim
                 ELSE IF r = "ok" THEN [wclaim EXCEPT !.ok = @ + 1]
                 ELSE IF r = AlreadyUsed THEN [wclaim EXCEPT !.used = @ + 1]
                 ELSE [wclaim EXCEPT !.other = @ + 1]

NewReq(op, pc, user, amount, txn, ref) ==
    [op |-> op, pc |-> pc, user |-> user, amount |-> amount, ref |-> ref,
     txn |-> txn, cur |-> 0, out |-> "", wrote |-> FALSE, n |-> wops + 1,
     pre |-> [bal |-> wbal, admin |-> wadmin, wd |-> wwd,
              alone |-> \A q \in WProcSet :
                            \/ wreq[q].pc = "idle"
                            \/ wreq[q].pc = "done" /\ wreq[q].pre.alone]]

WTables == <<wbal, wledger, wadmin, wwd>>

\* ---- registerIncomingPayment, lines 611-659 ----
registerIncomingPayment(p, raw, amount) ==
    /\ CanStart(p)
    /\ wops' = wops + 1
    /\ UNCHANGED <<wbal, wledger, wadmin, wwd, wfaults>>
    /\ LET rec == NewReq("register", "r_select", "", amount, raw, 0) IN
         IF isBlankTxn(normalizeTxnId(raw))
           THEN Return(p, rec, "Transaction ID is required.")
         ELSE IF amount <= 0
           THEN Return(p, rec, "Amount must be greater than 0.")
         ELSE Goto(p, rec)

\* registerIncomingPayment inserting without looking for the transaction id
registerSelect_noDuplicateCheck(p, f) ==
    /\ wreq[p].pc = "r_select"
    /\ FaultStep(f)
    /\ UNCHANGED <<wbal, wledger, wadmin, wwd, wops>>
    /\ IF f
         THEN Return(p, wreq[p], StorageError)
         ELSE Goto(p, [wreq[p] EXCEPT !.pc = "r_insert"])

registerSelect(p, f) ==
    /\ wreq[p].pc = "r_select"
    /\ FaultStep(f)
    /\ UNCHANGED <<wbal, wledger, wadmin, wwd, wops>>
    /\ LET rows == AdminRowsFor(normalizeTxnId(wreq[p].txn)) IN
         IF f \/ Cardinality(rows) > 1
           THEN Return(p, wreq[p], StorageError)
         ELSE IF rows # {}
           THEN Return(p, wreq[p], "This transaction ID already exists in the system.")
         ELSE Goto(p, [wreq[p] EXCEPT !.pc = "r_insert"])

registerInsert(p, f) ==
    /\ wreq[p].pc = "r_insert"
    /\ FaultStep(f)
    /\ UNCHANGED <<wbal, wledger, wwd, wops>>
    /\ IF f
         THEN /\ UNCHANGED wadmin
              /\ Return(p, wreq[p], StorageError)
         ELSE /\ wadmin' = Append(wadmin,
                     [txn_id |-> trimTxnId(wreq[p].txn), amount |-> wreq[p].amount,
                      status |-> "AVAILABLE", claimed_by_user_id |-> ""])
              /\ Return(p, wreq[p], "ok")

\* ---- claimCreditsByTxnId, lines 661-753 ----
claimCreditsByTxnId(p, userId, raw) ==
    /\ CanStart(p)
    /\ wops' = wops + 1
    /\ UNCHANGED <<wbal, wledger, wadmin, wwd, wfaults>>
    /\ LET rec == NewReq("claim", "c_select", userId, 0, raw, 0) IN
         IF isBlankTxn(normalizeTxnId(raw))
           THEN Return(p, rec, "Transaction ID is required.")
         ELSE Goto(p, rec)

claimSelect(p, f) ==
    /\ wreq[p].pc = "c_select"
    /\ FaultStep(f)
    /\ UNCHANGED <<wbal, wledger, wadmin, wwd, wops>>
    /\ LET rows == AdminRowsFor(normalizeTxnId(wreq[p].txn)) IN
         IF f \/ Cardinality(rows) > 1
           THEN Return(p, wreq[p], StorageError)
         ELSE IF rows = {}
           THEN Return(p, wreq[p], "Transaction ID not registered by admin yet.")
         ELSE LET i == CHOOSE i \in rows : TRUE IN
           IF wadmin[i].status = "CLAIMED"
             THEN Return(p, wreq[p], AlreadyUsed)
             ELSE Goto(p, [wreq[p] EXCEPT !.pc = "c_cas", !.ref = i,
                                          !.amount = wadmin[i].amount])
\* the update of claimCreditsByTxnId without .eq("status", "AVAILABLE")
claimCas_anyStatus(p, f) ==
    /\ wreq[p].pc = "c_cas"
    /\ FaultStep(f)
    /\ UNCHANGED <<wbal, wledger, wwd, wops>>
    /\ IF f
         THEN /\ UNCHANGED wadmin
              /\ Return(p, wreq[p], StorageError)
         ELSE /\ wadmin' = [wadmin EXCEPT ![wreq[p].ref].status = "CLAIMED",
                                          ![wreq[p].ref].claimed_by_user_id = wreq[p].user]
              /\ Goto(p, [wreq[p] EXCEPT !.pc = "ens"])

\* update ... where id = entry.id and status = 'AVAILABLE'
claimCas(p, f) ==
    /\ wreq[p].pc = "c_cas"
    /\ FaultStep(f)
    /\ UNCHANGED <<wbal, wledger, wwd, wops>>
    /\ LET i == wreq[p].ref IN
         IF f
           THEN /\ UNCHANGED wadmin
                /\ Return(p, wreq[p], StorageError)
         ELSE IF wadmin[i].status = "AVAILABLE"
           THEN /\ wadmin' = [wadmin EXCEPT ![i].status = "CLAIMED",
                                            ![i].claimed_by_user_id = wreq[p].user]
                /\ Goto(p, [wreq[p] EXCEPT !.pc = "ens"])
         ELSE /\ UNCHANGED wadmin
              /\ Return(p, wreq[p], AlreadyUsed)

\* ---- spendCredits, lines 755-802 ----
spendCredits(p, userId, amount) ==
    /\ CanStart(p)
    /\ wops' = wops + 1
    /\ UNCHANGED <<wbal, wledger, wadmin, wwd, wfaults>>
    /\ LET rec == NewReq("spend", "ens", userId, amount, IdleReq.txn, 0) IN
         IF amount <= 0
           THEN Return(p, rec, "Amount must be greater than 0.")
           ELSE Goto(p, rec)

\* ---- adminCreditWallet, lines 804-859 ----
adminCreditWallet(p, userId, amount) ==
    /\ CanStart(p)
    /\ wops' = wops + 1
    /\ UNCHANGED <<wbal, wledger, wadmin, wwd, wfaults>>
    /\ LET rec == NewReq("credit", "ens", userId, amount, IdleReq.txn, 0) IN
         IF amount <= 0
           THEN Return(p, rec, "Amount must be greater than 0.")
           ELSE Goto(p, rec)

\* ---- requestWithdrawal, lines 861-963 ----
\* the checks made before any storage call; "" when the input passes
withdrawalInputError(upiIdInput, amountInput) ==
    IF amountInput.whole < 0 \/ (amountInput.whole = 0 /\ ~amountInput.half)
      THEN "Enter a valid withdrawal amount."
    ELSE IF amountInput.half
      THEN "Withdrawal amount must be a whole number."
    ELSE IF amountInput.whole < MIN_WITHDRAWAL_AMOUNT
      THEN "Minimum withdrawal is Rs 200."
    ELSE IF trimUpi(upiIdInput).base = ""
      THEN "UPI ID is required."
    ELSE IF ~includesAt(trimUpi(upiIdInput))
      THEN "Enter a valid UPI ID (example: name@bank)."
    ELSE ""

requestWithdrawal(p, userId, upiIdInput, amountInput) ==
    /\ CanStart(p)
    /\ wops' = wops + 1
    /\ UNCHANGED <<wbal, wledger, wadmin, wwd, wfaults>>
    /\ LET rec == NewReq("withdraw", "ens", userId, amountInput.whole, IdleReq.txn, 0) IN
         IF withdrawalInputError(upiIdInput, amountInput) # ""
           THEN Return(p, rec, withdrawalInputError(upiIdInput, amountInput))
           ELSE Goto(p, rec)

\* ensureBalanceRow whose caller spends without looking at the balance
ensureBalanceRow_noBalanceCheck(p, f) ==
    /\ wreq[p].pc = "ens"
    /\ FaultStep(f)
    /\ UNCHANGED <<wbal, wledger, wadmin, wwd, wops>>
    /\ LET u == wreq[p].user IN
         IF f
           THEN Return(p, wreq[p], StorageError)
         ELSE IF wbal[u] = NoRow
           THEN Goto(p, [wreq[p] EXCEPT !.pc = "ens_ins"])
         ELSE Goto(p, [wreq[p] EXCEPT !.pc = "upd", !.cur = wbal[u]])

\* ---- ensureBalanceRow, lines 484-509: the first getBalanceRow, and the
\*      re-read after the insert; the caller's balance check follows ----
ensureBalanceRow(p, f) ==
    /\ wreq[p].pc = "ens"
    /\ FaultStep(f)
    /\ UNCHANGED <<wbal, wledger, wadmin, wwd, wops>>
    /\ LET u == wreq[p].user IN
         IF f
           THEN Return(p, wreq[p], StorageError)
         ELSE IF wbal[u] = NoRow
           THEN Goto(p, [wreq[p] EXCEPT !.pc = "ens_ins"])
         ELSE IF IsDebitOp(wreq[p].op) /\ wbal[u] < wreq[p].amount
           THEN Return(p, [wreq[p] EXCEPT !.cur = wbal[u]], NotEnough)
         ELSE Goto(p, [wreq[p] EXCEPT !.pc = "upd", !.cur = wbal[u]])

\* the insert of ensureBalanceRow; a duplicate-key error is ignored
ensureBalanceInsert(p, f) ==
    /\ wreq[p].pc = "ens_ins"
    /\ FaultStep(f)
    /\ UNCHANGED <<wledger, wadmin, wwd, wops>>
    /\ LET u == wreq[p].user IN
         IF f
           THEN /\ UNCHANGED wbal
                /\ Return(p, wreq[p], StorageError)
           ELSE /\ wbal' = IF wbal[u] = NoRow THEN [wbal EXCEPT ![u] = 0] ELSE wbal
                /\ Goto(p, [wreq[p] EXCEPT !.pc = "ens"])

\* ---- updateBalance, lines 511-521, called with cur + amount or cur - amount ----
updateBalance(p, f) ==
    /\ wreq[p].pc = "upd"
    /\ FaultStep(f)
    /\ UNCHANGED <<wledger, wadmin, wwd, wops>>
    /\ LET u == wreq[p].user
           nextBalance == IF IsCreditOp(wreq[p].op)
                            THEN wreq[p].cur + wreq[p].amount
                            ELSE wreq[p].cur - wreq[p].amount
       IN
         IF f
           THEN /\ UNCHANGED wbal
                /\ Return(p, wreq[p], StorageError)
           ELSE /\ wbal' = [wbal EXCEPT ![u] = Max(0, nextBalance)]
                /\ Goto(p, [wreq[p] EXCEPT !.wrote = TRUE,
                              !.pc = IF wreq[p].op = "withdraw" THEN "wd_ins" ELSE "led"])

\* the insert into wallet_withdrawals of requestWithdrawal, lines 911-927
withdrawalInsert(p, f) ==
    /\ wreq[p].pc = "wd_ins"
    /\ FaultStep(f)
    /\ UNCHANGED <<wbal, wledger, wadmin, wops>>
    /\ IF f
         THEN /\ UNCHANGED wwd
              /\ Return(p, wreq[p], StorageError)
         ELSE /\ wwd' = Append(wwd, [user_id |-> wreq[p].user, amount |-> wreq[p].amount,
                                     status |-> "PENDING"])
              /\ Goto(p, [wreq[p] EXCEPT !.pc = "led", !.ref = Len(wwd) + 1])

LedgerNote(rec) ==
    CASE rec.op = "claim" -> <<"deposit", rec.ref>>
      [] rec.op = "credit" -> <<"prize", 0>>
      [] rec.op = "spend" -> <<"debit", 0>>
      [] OTHER -> <<"withdrawal", rec.ref>>

\* ---- insertLedgerTxn, lines 523-544 ----
insertLedgerTxn(p, f) ==
    /\ wreq[p].pc = "led"
    /\ FaultStep(f)
    /\ UNCHANGED <<wbal, wadmin, wwd, wops>>
    /\ IF f
         THEN /\ UNCHANGED wledger
              /\ Return(p, wreq[p], StorageError)
         ELSE /\ wledger' = wledger (+) SetToBag({
                     [userId |-> wreq[p].user,
                      type |-> IF IsCreditOp(wreq[p].op) THEN "CREDIT" ELSE "DEBIT",
                      amount |-> wreq[p].amount,
                      note |-> LedgerNote(wreq[p])]})
              /\ Return(p, wreq[p], "ok")

\* the update of markWithdrawalPaid without .eq("status", "PENDING")
paidCas_anyStatus(p, f) ==
    /\ wreq[p].pc = "p_cas"
    /\ FaultStep(f)
    /\ UNCHANGED <<wbal, wledger, wadmin, wops>>
    /\ IF f
         THEN /\ UNCHANGED wwd
              /\ Return(p, wreq[p], StorageError)
         ELSE /\ wwd' = [wwd EXCEPT ![wreq[p].ref].status = "PAID"]
              /\ Return(p, wreq[p], "ok")

\* ---- markWithdrawalPaid, lines 965-1020 ----
markWithdrawalPaid(p, requestId) ==
    /\ CanStart(p)
    /\ wops' = wops + 1
    /\ UNCHANGED <<wbal, wledger, wadmin, wwd, wfaults>>
    /\ Goto(p, NewReq("paid", "p_select", "", 0, IdleReq.txn, requestId))

paidSelect(p, f) ==
    /\ wreq[p].pc = "p_select"
    /\ FaultStep(f)
    /\ UNCHANGED <<wbal, wledger, wadmin, wwd, wops>>
    /\ LET i == wreq[p].ref IN
         IF f
           THEN Return(p, wreq[p], StorageError)
         ELSE IF i > Len(wwd)
           THEN Return(p, wreq[p], "Request not found.")
         ELSE IF wwd[i].status = "PAID"
           THEN Return(p, wreq[p], AlreadyPaid)
         ELSE Goto(p, [wreq[p] EXCEPT !.pc = "p_cas"])

\* update ... where id = requestId and status = 'PENDING'
paidCas(p, f) ==
    /\ wreq[p].pc = "p_cas"
    /\ FaultStep(f)
    /\ UNCHANGED <<wbal, wledger, wadmin, wops>>
    /\ LET i == wreq[p].ref IN
         IF f
           THEN /\ UNCHANGED wwd
                /\ Return(p, wreq[p], StorageError)
         ELSE IF wwd[i].status = "PENDING"
           THEN /\ wwd' = [wwd EXCEPT ![i].status = "PAID"]
                /\ Return(p, wreq[p], "ok")
         ELSE /\ UNCHANGED wwd
              /\ Return(p, wreq[p], AlreadyPaid)

WNext ==
    \/ \E p \in WProcSet, raw \in TxnInputs, a \in Amounts : registerIncomingPayment(p, raw, a)
    \/ \E p \in WProcSet, f \in BOOLEAN : registerSelect(p, f)
    \/ \E p \in WProcSet, f \in BOOLEAN : registerInsert(p, f)
    \/ \E p \in WProcSet, u \in Users, raw \in TxnInputs : claimCreditsByTxnId(p, u, raw)
    \/ \E p \in WProcSet, f \in BOOLEAN : claimSelect(p, f)
    \/ \E p \in WProcSet, f \in BOOLEAN : claimCas(p, f)
    \/ \E p \in WProcSet, u \in Users, a \in Amounts : spendCredits(p, u, a)
    \/ \E p \in WProcSet, u \in Users, a \in Amounts : adminCreditWallet(p, u, a)
    \/ \E p \in WProcSet, u \in Users, w \in WithdrawalInputs :
           requestWithdrawal(p, u, w.upiIdInput, w.amountInput)
    \/ \E p \in WProcSet, f \in BOOLEAN : ensureBalanceRow(p, f)
    \/ \E p \in WProcSet, f \in BOOLEAN : ensureBalanceInsert(p, f)
    \/ \E p \in WProcSet, f \in BOOLEAN : updateBalance(p, f)
    \/ \E p \in WProcSet, f \in BOOLEAN : withdrawalInsert(p, f)
    \/ \E p \in WProcSet, f \in BOOLEAN : insertLedgerTxn(p, f)
    \/ \E p \in WProcSet, r \in 1..(Len(wwd) + 1) : markWithdrawalPaid(p, r)
    \/ \E p \in WProcSet, f \in BOOLEAN : paidSelect(p, f)
    \/ \E p \in WProcSet, f \in BOOLEAN : paidCas(p, f)

InitWalletDb ==
    /\ WalletInit
    /\ wimpl = "supabase"
    /\ FUntouched
    /\ BUntouched

SpecWalletDb == InitWalletDb /\ [][WNext]_vars

(***************************************************************************)
(* Observations used by the properties.                                    *)
(***************************************************************************)
\* no wallet request stands between two of its storage calls
WQuiescent == \A p \in WProcSet : wreq[p].pc \in {"idle", "done"}

\* toAmount(balance) of getUserWallet: 0 when the user has no row
Balance(u) == IF wbal[u] = NoRow THEN 0 ELSE wbal[u]

RECURSIVE LedgerTotal(_)
LedgerTotal(es) ==
    IF es = {} THEN 0
    ELSE LET e == CHOOSE x \in es : TRUE
         IN wledger[e] * e.amount + LedgerTotal(es \ {e})

LedgerSum(u, type) ==
    LedgerTotal({e \in DOMAIN wledger : e.userId = u /\ e.type = type})

DepositCredits(i) ==
    {e \in DOMAIN wledger : e.type = "CREDIT" /\ e.note = <<"deposit", i>>}

(***************************************************************************)
(* File-backed wallet store (data/wallet.db.json), the other walletStore   *)
(* module.  Every exported write runs inside withWriteLock, reads the      *)
(* whole file with readStore and writes it back with one writeStore: one   *)
(* atomic action each.  userWallets is kept as wbal (balance), wledger     *)
(* (txns) and wwd (withdrawals), adminTxns as wadmin; an entry's position  *)
(* in the order of creation stands for its crypto.randomUUID id.           *)
(***************************************************************************)
\* withWriteLock(operation): the queued operation runs alone, start to return
withWriteLock(p, rec, r, bal, ledger, admin, wd) ==
    /\ wimpl = "file"
    /\ wops < WMaxOps
    /\ wops' = wops + 1
    /\ wfaults' = wfaults
    /\ wbal' = bal
    /\ wledger' = ledger
    /\ wadmin' = admin
    /\ wwd' = wd
    /\ Return(p, [rec EXCEPT !.wrote = (r = "ok")], r)

\* readStore: every entry of the file goes through its normalize function
normalizeAdminTxn(raw) ==
    [raw EXCEPT !.status = IF raw.status = "CLAIMED" THEN "CLAIMED" ELSE "AVAILABLE"]

normalizeWithdrawal_alwaysPending(raw) == [raw EXCEPT !.status = "PENDING"]

normalizeWithdrawal(raw) ==
    [raw EXCEPT !.status = IF raw.status = "PAID" THEN "PAID" ELSE "PENDING"]

file_adminTxns == [i \in 1..Len(wadmin) |-> normalizeAdminTxn(wadmin[i])]

file_withdrawals == [i \in 1..Len(wwd) |-> normalizeWithdrawal(wwd[i])]

\* find / findIndex over adminTxns, newest entry first (unshift)
findAdminTxn(normalized) ==
    IF AdminRowsFor(normalized) = {} THEN 0
    ELSE CHOOSE i \in AdminRowsFor(normalized) :
             \A j \in AdminRowsFor(normalized) : j <= i

walletTxn(rec) ==
    [userId |-> rec.user,
     type |-> IF IsCreditOp(rec.op) THEN "CREDIT" ELSE "DEBIT",
     amount |-> rec.amount,
     note |-> LedgerNote(rec)]

file_registerIncomingPayment(p, raw, amount) ==
    \E rec \in {NewReq("register", "done", "", amount, raw, 0)} :
        IF isBlankTxn(normalizeTxnId(raw))
          THEN withWriteLock(p, rec, "Transaction ID is required.", wbal, wledger, wadmin, wwd)
        ELSE IF amount <= 0
          THEN withWriteLock(p, rec, "Amount must be greater than 0.", wbal, wledger, wadmin, wwd)
        ELSE IF findAdminTxn(normalizeTxnId(raw)) # 0
          THEN withWriteLock(p, rec, "This transaction ID already exists in the system.",
                             wbal, wledger, wadmin, wwd)
        ELSE withWriteLock(p, rec, "ok", wbal, wledger,
                           Append(file_adminTxns, [txn_id |-> trimTxnId(raw), amount |-> amount,
                                           status |-> "AVAILABLE",
                                           claimed_by_user_id |-> ""]),
                           file_withdrawals)

file_claimCreditsByTxnId(p, userId, raw) ==
    \E idx \in {findAdminTxn(normalizeTxnId(raw))} :
      \E rec \in {NewReq("claim", "done", userId,
                         IF idx = 0 THEN 0 ELSE file_adminTxns[idx].amount, raw, idx)} :
        IF isBlankTxn(normalizeTxnId(raw))
          THEN withWriteLock(p, rec, "Transaction ID is required.", wbal, wledger, wadmin, wwd)
        ELSE IF idx = 0
          THEN withWriteLock(p, rec, "Transaction ID not registered by admin yet.",
                             wbal, wledger, wadmin, wwd)
        ELSE IF file_adminTxns[idx].status = "CLAIMED"
          THEN withWriteLock(p, rec, AlreadyUsed, wbal, wledger, wadmin, wwd)
        ELSE withWriteLock(p, rec, "ok",
                           [wbal EXCEPT ![userId] = Balance(userId) + rec.amount],
                           wledger (+) SetToBag({walletTxn(rec)}),
                           [file_adminTxns EXCEPT ![idx].status = "CLAIMED",
                                                  ![idx].claimed_by_user_id = userId],
                           file_withdrawals)

file_spendCredits(p, userId, amount) ==
    \E rec \in {NewReq("spend", "done", userId, amount, IdleReq.txn, 0)} :
        IF amount <= 0
          THEN withWriteLock(p, rec, "Amount must be greater than 0.", wbal, wledger, wadmin, wwd)
        ELSE IF Balance(userId) < amount
          THEN withWriteLock(p, rec, NotEnough, wbal, wledger, wadmin, wwd)
        ELSE withWriteLock(p, rec, "ok",
                           [wbal EXCEPT ![userId] = Balance(userId) - amount],
                           wledger (+) SetToBag({walletTxn(rec)}),
                           file_adminTxns, file_withdrawals)

file_adminCreditWallet(p, userId, amount) ==
    \E rec \in {NewReq("credit", "done", userId, amount, IdleReq.txn, 0)} :
        IF amount <= 0
          THEN withWriteLock(p, rec, "Amount must be greater than 0.", wbal, wledger, wadmin, wwd)
        ELSE withWriteLock(p, rec, "ok",
                           [wbal EXCEPT ![userId] = Balance(userId) + amount],
                           wledger (+) SetToBag({walletTxn(rec)}),
                           file_adminTxns, file_withdrawals)

file_requestWithdrawal(p, userId, upiIdInput, amountInput) ==
    \E rec \in {NewReq("withdraw", "done", userId, amountInput.whole, IdleReq.txn, 0)} :
        IF withdrawalInputError(upiIdInput, amountInput) # ""
          THEN withWriteLock(p, rec, withdrawalInputError(upiIdInput, amountInput),
                             wbal, wledger, wadmin, wwd)
        ELSE IF Balance(userId) < rec.amount
          THEN withWriteLock(p, rec, NotEnough, wbal, wledger, wadmin, wwd)
        ELSE withWriteLock(p, [rec EXCEPT !.ref = Len(wwd) + 1], "ok",
                           [wbal EXCEPT ![userId] = Balance(userId) - rec.amount],
                           wledger (+) SetToBag({walletTxn([rec EXCEPT !.ref = Len(wwd) + 1])}),
                           file_adminTxns,
                           Append(file_withdrawals, [user_id |-> userId, amount |-> rec.amount,
                                        status |-> "PENDING"]))

\* markWithdrawalPaid taking the amount off the balance at payout
file_markWithdrawalPaid_debitingAtPayout(p, requestId) ==
    \E rec \in {NewReq("paid", "done", "", 0, IdleReq.txn, requestId)} :
        IF requestId > Len(wwd)
          THEN withWriteLock(p, rec, "Request not found.", wbal, wledger, wadmin, wwd)
        ELSE IF file_withdrawals[requestId].status = "PAID"
          THEN withWriteLock(p, rec, AlreadyPaid, wbal, wledger, wadmin, wwd)
        ELSE withWriteLock(p, rec, "ok",
                           [wbal EXCEPT ![wwd[requestId].user_id] =
                               Max(0, Balance(wwd[requestId].user_id) - wwd[requestId].amount)],
                           wledger, file_adminTxns,
                           [file_withdrawals EXCEPT ![requestId].status = "PAID"])

file_markWithdrawalPaid(p, requestId) ==
    \E rec \in {NewReq("paid", "done", "", 0, IdleReq.txn, requestId)} :
        IF requestId > Len(wwd)
          THEN withWriteLock(p, rec, "Request not found.", wbal, wledger, wadmin, wwd)
        ELSE IF file_withdrawals[requestId].status = "PAID"
          THEN withWriteLock(p, rec, AlreadyPaid, wbal, wledger, wadmin, wwd)
        ELSE withWriteLock(p, rec, "ok", wbal, wledger, file_adminTxns,
                           [file_withdrawals EXCEPT ![requestId].status = "PAID"])

\* the file-backed operations
WFileNext ==
    \/ \E p \in WProcSet, raw \in TxnInputs, a \in Amounts :
           file_registerIncomingPayment(p, raw, a)
    \/ \E p \in WProcSet, u \in Users, raw \in TxnInputs : file_claimCreditsByTxnId(p, u, raw)
    \/ \E p \in WProcSet, u \in Users, a \in Amounts : file_spendCredits(p, u, a)
    \/ \E p \in WProcSet, u \in Users, a \in Amounts : file_adminCreditWallet(p, u, a)
    \/ \E p \in WProcSet, u \in Users, w \in WithdrawalInputs :
           file_requestWithdrawal(p, u, w.upiIdInput, w.amountInput)
    \/ \E p \in WProcSet, r \in 1..(Len(wwd) + 1) : file_markWithdrawalPaid(p, r)

\* The wallet under either walletStore module: the tables are held by the
\* database or by the file from the start, and only that module's
\* operations run.
WalletNext == WNext \/ WFileNext

InitWallet ==
    /\ WalletInit
    /\ wimpl \in {"supabase", "file"}
    /\ FUntouched
    /\ BUntouched

SpecWallet == InitWallet /\ [][WalletNext]_vars

(***************************************************************************)
(* File-backed tournament store.  Every exported operation runs inside     *)
(* withWriteLock, reads the whole file with readStore, and writes the      *)
(* whole store back with one writeStore: one atomic action each.           *)
(***************************************************************************)
BR_MODE_SLOTS(mode) ==
    CASE mode = "SOLO" -> SOLO_SLOTS
      [] mode = "DUO" -> DUO_SLOTS
      [] OTHER -> SQUAD_SLOTS

statusFor(status, bookedCount, maxSlots) ==
    IF status = "COMPLETED" THEN "COMPLETED"
    ELSE IF bookedCount >= maxSlots THEN "FULL"
    ELSE "OPEN"

fixedMaxSlots(raw) ==
    IF raw.matchType = "BR" /\ raw.brMode # "NONE"
      THEN BR_MODE_SLOTS(raw.brMode)
      ELSE Max(1, raw.maxSlots)

normalizeTournament(raw) ==
    \* fixedBookedCount = Math.min(bookedCount, fixedMaxSlots)
    [raw EXCEPT !.maxSlots = fixedMaxSlots(raw),
                !.manualSoldSlots = Max(0, Min(fixedMaxSlots(raw), raw.manualSoldSlots)),
                !.bookedCount = Min(Max(0, raw.bookedCount), fixedMaxSlots(raw)),
                !.status = statusFor(raw.status, Min(Max(0, raw.bookedCount), fixedMaxSlots(raw)),
                                     fixedMaxSlots(raw))]

\* playerName || teamMembers[0] || ""
playerNameOr(playerName, teamMembers) ==
    IF playerName # BlankName THEN playerName
    ELSE IF Len(teamMembers) > 0 THEN teamMembers[1]
    ELSE BlankName

normalizeBooking(raw) ==
    [raw EXCEPT !.teamSize = Max(1, raw.teamSize),
                !.teamMembers = normalizeTeamMembers(raw.teamMembers, raw.playerName,
                                                     Max(1, raw.teamSize)),
                !.playerName = playerNameOr(raw.playerName,
                                            normalizeTeamMembers(raw.teamMembers, raw.playerName,
                                                                 Max(1, raw.teamSize))),
                !.slotNumber = Max(1, raw.slotNumber)]

\* Array.prototype.findIndex over the set of matching indexes
findIndex(matching) == CHOOSE i \in matching : \A j \in matching : i <= j

BookingsOf(bookings, tournamentId) ==
    SelectSeq(bookings, LAMBDA b : b.tournamentId = tournamentId)

\* readStore, the per-tournament recomputation of lines 1094-1114
withOnlineCount(normalized, onlineCount) ==
    [normalized EXCEPT
        !.manualSoldSlots = Max(0, Min(normalized.maxSlots, normalized.manualSoldSlots)),
        !.bookedCount = Min(normalized.maxSlots,
                            onlineCount + Max(0, Min(normalized.maxSlots, normalized.manualSoldSlots))),
        !.status = statusFor(normalized.status,
                             Min(normalized.maxSlots,
                                 onlineCount + Max(0, Min(normalized.maxSlots, normalized.manualSoldSlots))),
                             normalized.maxSlots)]

normalizedBookings == [i \in 1..Len(fb) |-> normalizeBooking(fb[i])]

\* the store as readStore returns it: {tournaments, bookings}
readStore ==
    [tournaments |-> [t \in DOMAIN ft |->
                        withOnlineCount(normalizeTournament(ft[t]),
                                        Len(BookingsOf(normalizedBookings, t)))],
     bookings |-> normalizedBookings]

\* an operation that returns without writeStore
FReject(op, reason) ==
    /\ fout' = [op |-> op, ok |-> FALSE, reason |-> reason, id |-> 0]
    /\ fops' = fops + 1
    /\ UNCHANGED <<ft, fb, fnext>>
    /\ UNCHANGED <<wvars, bvars>>

\* writeStore(store) followed by a successful return
FCommit(op, tournaments, bookings, id) ==
    /\ ft' = tournaments
    /\ fb' = bookings
    /\ fout' = [op |-> op, ok |-> TRUE, reason |-> "", id |-> id]
    /\ fops' = fops + 1
    /\ UNCHANGED <<wvars, bvars>>

NameConflict == "One or more team members are already booked in this tournament."
TournamentFull == "This tournament is full."
RoomPublished == "Booking is closed because Room ID and Password are already published."
NoPlayerName == "At least one player name is required."
TooLate == "Team names can only be updated up to 1 hour before start."

normalizedNamesOf(names) ==
    { normalizePlayerName(names[i]) : i \in 1..Len(names) } \ {BlankName}

\* the bookings of the tournament that hold one of the names
conflicting(bookings, tournamentId, normalizedNames, ignoreIdx) ==
    { i \in 1..Len(bookings) :
        /\ i # ignoreIdx
        /\ bookings[i].tournamentId = tournamentId
        /\ \E name \in normalizedNames : bookingContainsName(bookings[i], name) }

createBookingAndIncrement(tournamentId, userId, playerName, teamMembersInput) ==
    /\ wimpl = "file"
    /\ fops < FMaxOps
    /\ \E store \in {readStore}, op \in {"createBookingAndIncrement"} :
         IF tournamentId \notin DOMAIN store.tournaments
           THEN FReject(op, "Tournament not found.")
           ELSE
             \E current \in {store.tournaments[tournamentId]} :
             \E teamSize \in {getTeamSizeForTournament(current)} :
             \E names \in {normalizeTeamMembers(
                               IF Len(teamMembersInput) > 0 THEN teamMembersInput
                               ELSE <<playerName>>,
                               BlankName, teamSize)} :
                IF Len(names) = 0 THEN FReject(op, NoPlayerName)
                ELSE IF conflicting(store.bookings, tournamentId, normalizedNamesOf(names), 0) # {}
                  THEN FReject(op, NameConflict)
                ELSE IF current.status = "COMPLETED" \/ current.bookedCount >= current.maxSlots
                  THEN FReject(op, TournamentFull)
                ELSE IF current.room THEN FReject(op, RoomPublished)
                ELSE
                  \E nextSlot \in {Max(1, current.bookedCount + 1)},
                     bookedCount \in {Min(current.maxSlots, current.bookedCount + 1)} :
                     /\ FCommit(op,
                                [store.tournaments EXCEPT
                                    ![tournamentId] =
                                        [current EXCEPT
                                            !.bookedCount = bookedCount,
                                            !.status = IF bookedCount >= current.maxSlots
                                                         THEN "FULL" ELSE "OPEN"]],
                                Append(store.bookings,
                                       [id |-> fnext, tournamentId |-> tournamentId,
                                        userId |-> userId, playerName |-> names[1],
                                        teamMembers |-> names, teamSize |-> teamSize,
                                        slotNumber |-> nextSlot]),
                                fnext)
                     /\ fnext' = fnext + 1

updateBookingTeamMembers(tournamentId, userId, bookingId, teamMembersInput, pastCutoff) ==
    /\ wimpl = "file"
    /\ fops < FMaxOps
    /\ \E store \in {readStore}, op \in {"updateBookingTeamMembers"} :
       \E found \in {{ i \in 1..Len(store.bookings) :
                          /\ store.bookings[i].tournamentId = tournamentId
                          /\ store.bookings[i].id = bookingId
                          /\ store.bookings[i].userId = userId }} :
         IF tournamentId \notin DOMAIN store.tournaments
           THEN FReject(op, "Tournament not found.")
         ELSE IF found = {} THEN FReject(op, "Booking not found.")
         ELSE
           \E tournament \in {store.tournaments[tournamentId]}, idx \in {findIndex(found)} :
           \E teamSize \in {getTeamSizeForTournament(tournament)},
              current \in {store.bookings[idx]} :
           \E nextMembers \in {normalizeTeamMembers(teamMembersInput, current.playerName,
                                                    teamSize)} :
              \* hasValidStart && Date.now() > cutoffMs
              IF tournament.dateTime = "valid" /\ pastCutoff THEN FReject(op, TooLate)
              ELSE IF Len(nextMembers) = 0 THEN FReject(op, NoPlayerName)
              ELSE IF conflicting(store.bookings, tournamentId,
                                  normalizedNamesOf(nextMembers), idx) # {}
                THEN FReject(op, NameConflict)
              ELSE /\ FCommit(op, store.tournaments,
                              [store.bookings EXCEPT
                                  ![idx] = [current EXCEPT !.playerName = nextMembers[1],
                                                           !.teamMembers = nextMembers,
                                                           !.teamSize = teamSize]],
                              bookingId)
                   /\ UNCHANGED fnext

setTournamentRoom(id, room) ==
    /\ wimpl = "file"
    /\ fops < FMaxOps
    /\ \E store \in {readStore}, op \in {"setTournamentRoom"} :
         IF id \notin DOMAIN store.tournaments
           THEN FReject(op, "Tournament not found.")
           ELSE /\ FCommit(op,
                           [store.tournaments EXCEPT
                               ![id] = [@ EXCEPT !.room = room,
                                                 !.published = @ \/ room]],
                           store.bookings, 0)
                /\ UNCHANGED fnext

\* setTournamentManualSoldSlots with maxManualAllowed = maxSlots, whatever
\* the number of bookings
setTournamentManualSoldSlots_ignoringBookings(id, requestedSoldSlots) ==
    /\ wimpl = "file"
    /\ fops < FMaxOps
    /\ \E store \in {readStore}, op \in {"setTournamentManualSoldSlots"} :
         IF id \notin DOMAIN store.tournaments
           THEN FReject(op, "Tournament not found.")
           ELSE
             \E current \in {store.tournaments[id]},
                onlineBookedCount \in {Len(BookingsOf(store.bookings, id))} :
             \E nextManualSoldSlots \in {Max(0, Min(current.maxSlots, requestedSoldSlots))} :
             \E nextBookedCount \in {Min(current.maxSlots,
                                          onlineBookedCount + nextManualSoldSlots)} :
                /\ FCommit(op,
                           [store.tournaments EXCEPT
                               ![id] = [current EXCEPT
                                           !.manualSoldSlots = nextManualSoldSlots,
                                           !.bookedCount = nextBookedCount,
                                           !.status = statusFor(current.status, nextBookedCount,
                                                                current.maxSlots)]],
                           store.bookings, 0)
                /\ UNCHANGED fnext

setTournamentManualSoldSlots(id, requestedSoldSlots) ==
    /\ wimpl = "file"
    /\ fops < FMaxOps
    /\ \E store \in {readStore}, op \in {"setTournamentManualSoldSlots"} :
         IF id \notin DOMAIN store.tournaments
           THEN FReject(op, "Tournament not found.")
           ELSE
             \E current \in {store.tournaments[id]},
                onlineBookedCount \in {Len(BookingsOf(store.bookings, id))} :
             \E maxManualAllowed \in {Max(0, current.maxSlots - onlineBookedCount)} :
             \E nextManualSoldSlots \in {Max(0, Min(maxManualAllowed, requestedSoldSlots))} :
             \E nextBookedCount \in {Min(current.maxSlots,
                                          onlineBookedCount + nextManualSoldSlots)} :
                /\ FCommit(op,
                           [store.tournaments EXCEPT
                               ![id] = [current EXCEPT
                                           !.manualSoldSlots = nextManualSoldSlots,
                                           !.bookedCount = nextBookedCount,
                                           !.status = statusFor(current.status, nextBookedCount,
                                                                current.maxSlots)]],
                           store.bookings, 0)
                /\ UNCHANGED fnext

deleteTournamentRecord(id) ==
    /\ wimpl = "file"
    /\ fops < FMaxOps
    /\ \E store \in {readStore}, op \in {"deleteTournamentRecord"} :
         IF id \notin DOMAIN store.tournaments
           THEN FReject(op, "Tournament not found.")
           ELSE /\ FCommit(op,
                           [t \in (DOMAIN store.tournaments) \ {id} |-> store.tournaments[t]],
                           SelectSeq(store.bookings, LAMBDA b : b.tournamentId # id), 0)
                /\ UNCHANGED fnext

\* bookingId values of an update request: the ids in the store and an unknown one
BookingIds == { fb[i].id : i \in 1..Len(fb) } \cup {0}

\* manualSoldSlots values the admin route passes on (it rejects negatives)
ManualInputs == {0, 1, 3}

FNext ==
    \/ \E t \in TIds, u \in Users, m \in TeamInputs :
          \E n \in (IF m = << >> THEN NameInputs ELSE {NameA}) :
              createBookingAndIncrement(t, u, n, m)
    \/ \E t \in TIds, u \in Users, b \in BookingIds, m \in TeamInputs, late \in BOOLEAN :
          updateBookingTeamMembers(t, u, b, m, late)
    \/ \E t \in TIds, room \in BOOLEAN : setTournamentRoom(t, room)
    \/ \E t \in TIds, k \in ManualInputs : setTournamentManualSoldSlots(t, k)
    \/ \E t \in TIds : deleteTournamentRecord(t)

\* the wallet takes no part
WUntouched ==
    /\ wbal = [u \in Users |-> NoRow]
    /\ wledger = EmptyBag
    /\ wadmin = << >>
    /\ wwd = << >>
    /\ wreq = [p \in WProcSet |-> IdleReq]
    /\ wops = 0
    /\ wfaults = 0
    /\ wimpl = "file"
    /\ wnet = [u \in Users |-> 0]
    /\ wclaim = [ok |-> 0, used |-> 0, other |-> 0, credited |-> 0]

InitFileStore ==
    /\ FInit
    /\ WUntouched
    /\ BUntouched

SpecFileStore == InitFileStore /\ [][FNext]_vars

(***************************************************************************)
(* withWriteLock of the file-backed stores (walletStore and                *)
(* tournamentStore hold one copy each): the promise chain itself.  A call  *)
(* makes next = writeQueue.then(operation, operation) and stores          *)
(* next.then(() => undefined, () => undefined) in writeQueue.  A then      *)
(* handler is invoked once the promise it is attached to is settled; next  *)
(* settles as the promise the operation returned.                          *)
(***************************************************************************)
\* withWriteLock calls made in one run
LMaxCalls == 4

\* is the promise settled that writeQueue held when a call was made
QueueSettled(q) == IF q = 0 THEN TRUE ELSE lockCalls[q].tail # "pending"

LockFrame == UNCHANGED <<wbal, wledger, wadmin, wwd, wreq, wops, wfaults, wimpl, wnet,
                         wclaim, fvars, bvars>>

\* withWriteLock that leaves writeQueue as it was
writeQueueAfter_notAssigned(k) == writeQueue

\* lines 173-176: writeQueue = next.then(...), the promise of the k-th call
writeQueueAfter(k) == k

\* ---- withWriteLock(operation), lines 171-178 ----
withWriteLock_call ==
    /\ Len(lockCalls) < LMaxCalls
    /\ lockCalls' = Append(lockCalls,
                           [waitsFor |-> writeQueue, next |-> "queued", starts |-> 0,
                            tail |-> "pending"])
    /\ writeQueue' = writeQueueAfter(Len(lockCalls) + 1)
    /\ UNCHANGED lockOrder
    /\ LockFrame

\* writeQueue.then(operation, operation): the promise waited for has settled,
\* fulfilled or rejected, and the operation is invoked
operation_invoked(k) ==
    /\ lockCalls[k].next = "queued"
    /\ QueueSettled(lockCalls[k].waitsFor)
    /\ lockCalls' = [lockCalls EXCEPT ![k].next = "running", ![k].starts = @ + 1]
    /\ lockOrder' = Append(lockOrder, k)
    /\ UNCHANGED writeQueue
    /\ LockFrame

\* the operation's promise settles: it returned (fulfilled) or threw (rejected)
operation_settled(k, rejects) ==
    /\ lockCalls[k].next = "running"
    /\ lockCalls' = [lockCalls EXCEPT
                        ![k].next = IF rejects THEN "rejected" ELSE "fulfilled"]
    /\ UNCHANGED <<writeQueue, lockOrder>>
    /\ LockFrame

\* next.then(() => undefined, () => undefined): either handler returns
\* undefined, the promise stored in writeQueue is fulfilled
writeQueue_settled(k) ==
    /\ lockCalls[k].next \in {"fulfilled", "rejected"}
    /\ lockCalls[k].tail = "pending"
    /\ lockCalls' = [lockCalls EXCEPT ![k].tail = "fulfilled"]
    /\ UNCHANGED <<writeQueue, lockOrder>>
    /\ LockFrame

WriteLockNext ==
    \/ withWriteLock_call
    \/ \E k \in 1..Len(lockCalls) : operation_invoked(k)
    \/ \E k \in 1..Len(lockCalls), rejects \in BOOLEAN : operation_settled(k, rejects)
    \/ \E k \in 1..Len(lockCalls) : writeQueue_settled(k)

InitWriteLock ==
    /\ FUntouched
    /\ WUntouched
    /\ BUntouched

SpecWriteLock == InitWriteLock /\ [][WriteLockNext]_vars

\* The job queue runs every handler whose promise has settled, and an
\* operation, a finite run of file reads and writes, returns or throws.
SpecWriteLockLive ==
    /\ InitWriteLock
    /\ [][WriteLockNext]_vars
    /\ WF_vars(\E k \in 1..Len(lockCalls) : operation_invoked(k))
    /\ WF_vars(\E k \in 1..Len(lockCalls), rejects \in BOOLEAN : operation_settled(k, rejects))
    /\ WF_vars(\E k \in 1..Len(lockCalls) : writeQueue_settled(k))

(***************************************************************************)
(* Database-backed booking route (POST /api/tournaments/[id]/book).  The   *)
(* handler runs from one await to the next; requests of different          *)
(* processes interleave at every await.  The entry fee is taken by the     *)
(* wallet's spendCredits, whose steps are the wallet actions above.        *)
(***************************************************************************)
normalizeName(value) ==
    IF value.base = "" THEN BlankName
    ELSE [base |-> value.base, upper |-> FALSE, pad |-> FALSE]

normalizeBrMode(value) == IF value \in {"DUO", "SQUAD"} THEN value ELSE "SOLO"

inferTeamSize(matchType, brModeInput) ==
    IF matchType # "BR" THEN 1
    ELSE IF normalizeBrMode(brModeInput) = "DUO" THEN 2
    ELSE IF normalizeBrMode(brModeInput) = "SQUAD" THEN 4
    ELSE 1

\* bookingContainsName of supabaseTournament, on a bookings row
rowContainsName(row, normalizedName) ==
    /\ normalizedName # BlankName
    /\ \/ normalizeName(row.player_name) = normalizedName
       \/ \E i \in 1..Len(row.team_members) :
              normalizeName(row.team_members[i]) = normalizedName

\* hasNameConflict that skips no row
hasNameConflict_skippingNone(existingRows, normalizedNames, ignoreBookingId) ==
    /\ normalizedNames # {}
    /\ \E row \in existingRows :
          \E name \in normalizedNames : rowContainsName(row, name)

hasNameConflict(existingRows, normalizedNames, ignoreBookingId) ==
    /\ normalizedNames # {}
    /\ \E row \in existingRows :
          /\ ~(ignoreBookingId # 0 /\ row.id = ignoreBookingId)
          /\ \E name \in normalizedNames : rowContainsName(row, name)

\* members.map(normalizeName).filter(Boolean)
normalizedNames(members) ==
    { normalizeName(members[i]) : i \in 1..Len(members) } \ {BlankName}

\* the select without .eq("tournament_id", tournamentId)
rowsOfTournament_ofAll(t) == db

rowsOfTournament(t) == { row \in db : row.tournament_id = t }

teamSizeOf(row) ==
    inferTeamSize(IF row.match_type = "CS" THEN "CS" ELSE "BR", row.br_mode)

InFlight(q) == breq[q].pc \notin {"idle", "done"}

BFrame == UNCHANGED <<wbal, wledger, wadmin, wwd, wops, wimpl, wnet, wclaim, lvars, fvars>>

\* the request moves on to its next await
BGoto(p, rec) == breq' = [breq EXCEPT ![p] = rec]

\* the route answers; only what the properties look at is kept
BReturn(p, rec, r) ==
    breq' = [breq EXCEPT ![p] =
                [IdleBooking EXCEPT !.pc = "done", !.mode = rec.mode, !.t = rec.t,
                                    !.user = rec.user, !.members = rec.members,
                                    !.id = rec.id, !.out = r, !.rbErr = rec.rbErr,
                                    !.manual = rec.manual,
                                    !.bal0 = rec.bal0, !.poor = rec.poor,
                                    !.paid = rec.paid, !.ovl = rec.ovl]]

\* a request comes in on process p
BStart(p, rec, rejected) ==
    /\ wimpl = "supabase"
    /\ ~InFlight(p)
    /\ wreq[p].pc \in {"idle", "done"}
    /\ bops < BMaxOps
    /\ bops' = bops + 1
    /\ UNCHANGED <<dt, db, dnext, wreq, wfaults>>
    /\ BFrame
    /\ \E overlap \in {\E q \in WProcSet \ {p} : InFlight(q)} :
         IF rejected # ""
           THEN BReturn(p, rec, rejected)
           ELSE breq' = [q \in WProcSet |->
                           IF q = p THEN [rec EXCEPT !.ovl = overlap]
                           ELSE IF InFlight(q) THEN [breq[q] EXCEPT !.ovl = TRUE]
                           ELSE breq[q]]

\* ---- POST, lines 189-230: a booking request ----
POST(p, tournamentId, userId, playerName, teamMembers) ==
    BStart(p,
           [IdleBooking EXCEPT
               !.pc = "tour", !.mode = "book", !.t = tournamentId, !.user = userId,
               !.playerName = trimName(playerName), !.input = teamMembers,
               !.bal0 = Max(0, wbal[userId]),
               !.poor = /\ tournamentId \in DOMAIN dt
                        /\ dt[tournamentId].entry_fee > 0
                        /\ Max(0, wbal[userId]) < dt[tournamentId].entry_fee],
           IF trimName(playerName) = BlankName
             THEN "Invalid booking request. playerName and userId are required."
             ELSE "")

\* ---- updateTeamMembersMode, lines 103-111 ----
updateTeamMembersMode(p, tournamentId, userId, bookingId, teamMembers, late) ==
    BStart(p,
           [IdleBooking EXCEPT
               !.pc = "tour", !.mode = "update", !.t = tournamentId, !.user = userId,
               !.id = bookingId, !.input = teamMembers, !.late = late],
           IF bookingId = 0 THEN "Booking not found." ELSE "")

\* ---- getTournamentRow, lines 44-52, and what follows it up to the next await
getTournamentRow(p, f) ==
    /\ breq[p].pc = "tour"
    /\ FaultStep(f)
    /\ UNCHANGED <<dt, db, dnext, bops, wreq>>
    /\ BFrame
    /\ \E rec \in {breq[p]} :
         IF f \/ rec.t \notin DOMAIN dt
           THEN BReturn(p, rec, "Tournament not found.")
         ELSE IF rec.mode = "update"
           THEN BGoto(p, [rec EXCEPT !.pc = "u_booking", !.trow = dt[rec.t]])
         ELSE
           \E members \in {normalizeTeamMembers(rec.input, rec.playerName,
                                                teamSizeOf(dt[rec.t]))} :
              IF Len(members) = 0
                THEN BReturn(p, rec, NoPlayerName)
                ELSE BGoto(p, [rec EXCEPT !.pc = "b_select", !.trow = dt[rec.t],
                                          !.members = members])

maxSlotNumber(rows) ==
    IF rows = {} THEN 0
    ELSE CHOOSE n \in { row.slot_number : row \in rows } :
            \A row \in rows : row.slot_number <= n

\* the checks of POST without the one of the room (lines 265-274)
selectExistingBookings_withoutRoomCheck(p, f) ==
    /\ breq[p].pc = "b_select"
    /\ FaultStep(f)
    /\ UNCHANGED <<dt, db, dnext, bops, wreq>>
    /\ BFrame
    /\ \E rec \in {breq[p]}, existingBookings \in {rowsOfTournament(breq[p].t)} :
       \E maxSlots \in {Max(1, rec.trow.max_slots)},
          manualSold \in {Max(0, rec.trow.manual_sold_slots)} :
       \E totalBooked \in {Min(maxSlots, Cardinality(existingBookings) + manualSold)} :
         IF f THEN BReturn(p, rec, StorageError)
         ELSE IF hasNameConflict(existingBookings, normalizedNames(rec.members), 0)
           THEN BReturn(p, rec, NameConflict)
         ELSE IF rec.trow.status = "COMPLETED" \/ totalBooked >= maxSlots
           THEN BReturn(p, rec, TournamentFull)
         ELSE BGoto(p, [rec EXCEPT !.pc = "b_insert",
                                   !.slot = Max(1, maxSlotNumber(existingBookings) + 1)])

\* the checks of POST with the one of the room before the one of the capacity
selectExistingBookings_roomCheckFirst(p, f) ==
    /\ breq[p].pc = "b_select"
    /\ FaultStep(f)
    /\ UNCHANGED <<dt, db, dnext, bops, wreq>>
    /\ BFrame
    /\ \E rec \in {breq[p]}, existingBookings \in {rowsOfTournament(breq[p].t)} :
       \E maxSlots \in {Max(1, rec.trow.max_slots)},
          manualSold \in {Max(0, rec.trow.manual_sold_slots)} :
       \E totalBooked \in {Min(maxSlots, Cardinality(existingBookings) + manualSold)} :
         IF f THEN BReturn(p, rec, StorageError)
         ELSE IF hasNameConflict(existingBookings, normalizedNames(rec.members), 0)
           THEN BReturn(p, rec, NameConflict)
         ELSE IF rec.trow.room
           THEN BReturn(p, rec, RoomPublished)
         ELSE IF rec.trow.status = "COMPLETED" \/ totalBooked >= maxSlots
           THEN BReturn(p, rec, TournamentFull)
         ELSE BGoto(p, [rec EXCEPT !.pc = "b_insert",
                                   !.slot = Max(1, maxSlotNumber(existingBookings) + 1)])

\* ---- POST, lines 232-280: select the bookings, then the checks ----
selectExistingBookings(p, f) ==
    /\ breq[p].pc = "b_select"
    /\ FaultStep(f)
    /\ UNCHANGED <<dt, db, dnext, bops, wreq>>
    /\ BFrame
    /\ \E rec \in {breq[p]}, existingBookings \in {rowsOfTournament(breq[p].t)} :
       \E maxSlots \in {Max(1, rec.trow.max_slots)},
          manualSold \in {Max(0, rec.trow.manual_sold_slots)} :
       \E totalBooked \in {Min(maxSlots, Cardinality(existingBookings) + manualSold)} :
         IF f THEN BReturn(p, rec, StorageError)
         ELSE IF hasNameConflict(existingBookings, normalizedNames(rec.members), 0)
           THEN BReturn(p, rec, NameConflict)
         ELSE IF rec.trow.status = "COMPLETED" \/ totalBooked >= maxSlots
           THEN BReturn(p, rec, TournamentFull)
         ELSE IF rec.trow.room
           THEN BReturn(p, rec, RoomPublished)
         ELSE BGoto(p, [rec EXCEPT !.pc = "b_insert",
                                   !.slot = Max(1, maxSlotNumber(existingBookings) + 1)])

\* ---- POST, lines 282-306: insert the booking, then call spendCredits ----
insertBooking(p, f) ==
    /\ breq[p].pc = "b_insert"
    /\ FaultStep(f)
    /\ UNCHANGED <<dt, bops>>
    /\ BFrame
    /\ \E rec \in {breq[p]}, entryFee \in {Max(0, breq[p].trow.entry_fee)} :
         IF f
           THEN /\ BReturn(p, rec, "Booking failed.")
                /\ UNCHANGED <<db, dnext, wreq>>
           ELSE /\ db' = db \cup {[id |-> dnext, tournament_id |-> rec.t,
                                   user_id |-> rec.user, player_name |-> rec.members[1],
                                   team_members |-> rec.members,
                                   team_size |-> teamSizeOf(rec.trow),
                                   slot_number |-> rec.slot]}
                /\ dnext' = dnext + 1
                /\ IF entryFee > 0
                     THEN /\ BGoto(p, [rec EXCEPT !.pc = "b_spend", !.id = dnext])
                          /\ wreq' = [wreq EXCEPT ![p] =
                                         NewReq("spend", "ens", rec.user, entryFee,
                                                IdleReq.txn, 0)]
                     ELSE /\ BGoto(p, [rec EXCEPT !.pc = "rc_sel", !.id = dnext])
                          /\ UNCHANGED wreq

\* ---- POST, line 307: spendCredits has returned ----
spendReturned(p) ==
    /\ breq[p].pc = "b_spend"
    /\ wreq[p].pc = "done"
    /\ UNCHANGED <<dt, db, dnext, bops, wreq, wfaults>>
    /\ BFrame
    /\ IF wreq[p].out = "ok"
         THEN BGoto(p, [breq[p] EXCEPT !.pc = "rc_sel", !.paid = wreq[p].wrote])
         ELSE BGoto(p, [breq[p] EXCEPT !.pc = "b_rollback", !.paid = wreq[p].wrote,
                                       !.reason = wreq[p].out])

\* ---- POST, lines 308-312: the compensating delete ----
rollbackBooking(p, f) ==
    /\ breq[p].pc = "b_rollback"
    /\ FaultStep(f)
    /\ UNCHANGED <<dt, dnext, bops, wreq>>
    /\ BFrame
    /\ db' = IF f THEN db
             ELSE { row \in db : ~(row.id = breq[p].id /\ row.tournament_id = breq[p].t) }
    /\ BGoto(p, [breq[p] EXCEPT !.pc = "rc_sel", !.rb = TRUE, !.rbErr = f])

\* POST, lines 313-349: what the route answers once recalcTournamentCounts is
\* back (recalc is FALSE when it returned null)
afterRecalc(p, rec, recalc) ==
    IF rec.rb
      THEN IF rec.rbErr
             THEN BReturn(p, rec, "Booking payment failed and rollback failed. Contact admin.")
             ELSE BReturn(p, rec, "WALLET_DEBIT_FAILED")
    ELSE IF ~recalc
      THEN BReturn(p, rec, "Could not refresh tournament counts.")
    ELSE BReturn(p, rec, "ok")

\* ---- recalcTournamentCounts, lines 760-766: select the tournament ----
recalcTournamentCounts(p, f) ==
    /\ breq[p].pc = "rc_sel"
    /\ FaultStep(f)
    /\ UNCHANGED <<dt, db, dnext, bops, wreq>>
    /\ BFrame
    /\ IF f \/ breq[p].t \notin DOMAIN dt
         THEN afterRecalc(p, breq[p], FALSE)
         ELSE BGoto(p, [breq[p] EXCEPT !.pc = "rc_cnt", !.trow = dt[breq[p].t]])

clamp(value, min, max) == Min(max, Max(min, value))

computeTournamentStatus(rawStatus, bookedCount, maxSlots) ==
    IF rawStatus = "COMPLETED" THEN "COMPLETED"
    ELSE IF bookedCount >= maxSlots THEN "FULL"
    ELSE "OPEN"

\* recalcTournamentCounts, lines 769-777: the row it would write
recalculated(tournamentRow, onlineBookedCount) ==
    [tournamentRow EXCEPT
        !.manual_sold_slots =
            clamp(tournamentRow.manual_sold_slots, 0,
                  Max(0, Max(1, tournamentRow.max_slots) - onlineBookedCount)),
        !.booked_count =
            clamp(onlineBookedCount
                    + clamp(tournamentRow.manual_sold_slots, 0,
                            Max(0, Max(1, tournamentRow.max_slots) - onlineBookedCount)),
                  0, Max(1, tournamentRow.max_slots)),
        !.status =
            computeTournamentStatus(
                tournamentRow.status,
                clamp(onlineBookedCount
                        + clamp(tournamentRow.manual_sold_slots, 0,
                                Max(0, Max(1, tournamentRow.max_slots) - onlineBookedCount)),
                      0, Max(1, tournamentRow.max_slots)),
                Max(1, tournamentRow.max_slots))]

\* ---- getOnlineBookingCount, lines 743-754; it throws on a storage error ----
getOnlineBookingCount(p, f) ==
    /\ breq[p].pc = "rc_cnt"
    /\ FaultStep(f)
    /\ UNCHANGED <<dt, db, dnext, bops, wreq>>
    /\ BFrame
    /\ \E count \in {Cardinality(rowsOfTournament(breq[p].t))} :
         IF f THEN BReturn(p, breq[p], "unhandled error")
         ELSE IF recalculated(breq[p].trow, count) # breq[p].trow
           THEN BGoto(p, [breq[p] EXCEPT !.pc = "rc_upd", !.cnt = count])
         ELSE afterRecalc(p, breq[p], TRUE)

\* ---- recalcTournamentCounts, lines 784-800: the update; its error is ignored
recalcUpdate(p, f) ==
    /\ breq[p].pc = "rc_upd"
    /\ FaultStep(f)
    /\ UNCHANGED <<db, dnext, bops, wreq>>
    /\ BFrame
    /\ dt' = IF f \/ breq[p].t \notin DOMAIN dt THEN dt
             ELSE [dt EXCEPT ![breq[p].t] =
                      [@ EXCEPT
                          !.manual_sold_slots =
                              recalculated(breq[p].trow, breq[p].cnt).manual_sold_slots,
                          !.booked_count =
                              recalculated(breq[p].trow, breq[p].cnt).booked_count,
                          !.status = recalculated(breq[p].trow, breq[p].cnt).status]]
    /\ afterRecalc(p, breq[p], TRUE)

\* the select without .eq("user_id", userId)
ownBooking_ofAnyUser(rec) ==
    { row \in db : row.id = rec.id /\ row.tournament_id = rec.t }

ownBooking(rec) ==
    { row \in db : row.id = rec.id /\ row.tournament_id = rec.t /\ row.user_id = rec.user }

\* updateTeamMembersMode without the test of the start time (lines 129-135)
updateSelectBooking_withoutCutoff(p, f) ==
    /\ breq[p].pc = "u_booking"
    /\ FaultStep(f)
    /\ UNCHANGED <<dt, db, dnext, bops, wreq>>
    /\ BFrame
    /\ \E rec \in {breq[p]} :
         IF f \/ ownBooking(rec) = {}
           THEN BReturn(p, rec, "Booking not found.")
         ELSE
           \E existingBooking \in ownBooking(rec) :
           \E nextMembers \in {normalizeTeamMembers(rec.input, existingBooking.player_name,
                                                    teamSizeOf(rec.trow))} :
              IF Len(nextMembers) = 0
                THEN BReturn(p, rec, NoPlayerName)
                ELSE BGoto(p, [rec EXCEPT !.pc = "u_all", !.members = nextMembers])

\* ---- updateTeamMembersMode, lines 117-149: select the booking ----
updateSelectBooking(p, f) ==
    /\ breq[p].pc = "u_booking"
    /\ FaultStep(f)
    /\ UNCHANGED <<dt, db, dnext, bops, wreq>>
    /\ BFrame
    /\ \E rec \in {breq[p]} :
         IF f \/ ownBooking(rec) = {}
           THEN BReturn(p, rec, "Booking not found.")
         ELSE IF rec.trow.date_time = "valid" /\ rec.late
           THEN BReturn(p, rec, TooLate)
         ELSE
           \E existingBooking \in ownBooking(rec) :
           \E nextMembers \in {normalizeTeamMembers(rec.input, existingBooking.player_name,
                                                    teamSizeOf(rec.trow))} :
              IF Len(nextMembers) = 0
                THEN BReturn(p, rec, NoPlayerName)
                ELSE BGoto(p, [rec EXCEPT !.pc = "u_all", !.members = nextMembers])

\* ---- updateTeamMembersMode, lines 151-167: select all bookings, conflict check
updateSelectAll(p, f) ==
    /\ breq[p].pc = "u_all"
    /\ FaultStep(f)
    /\ UNCHANGED <<dt, db, dnext, bops, wreq>>
    /\ BFrame
    /\ IF f THEN BReturn(p, breq[p], StorageError)
       ELSE IF hasNameConflict(rowsOfTournament(breq[p].t),
                               normalizedNames(breq[p].members), breq[p].id)
         THEN BReturn(p, breq[p], NameConflict)
       ELSE BGoto(p, [breq[p] EXCEPT !.pc = "u_write"])

\* ---- updateTeamMembersMode, lines 169-186: the update ----
\* the update of the team members writing the tournament's other rows as well
updateWrite_allRowsOfTournament(p, f) ==
    /\ breq[p].pc = "u_write"
    /\ FaultStep(f)
    /\ UNCHANGED <<dt, dnext, bops, wreq>>
    /\ BFrame
    /\ IF f \/ ownBooking(breq[p]) = {}
         THEN /\ UNCHANGED db
              /\ BReturn(p, breq[p], "Could not update booking.")
         ELSE /\ db' = { IF row.tournament_id = breq[p].t
                           THEN [row EXCEPT !.player_name = breq[p].members[1],
                                            !.team_members = breq[p].members,
                                            !.team_size = teamSizeOf(breq[p].trow)]
                           ELSE row : row \in db }
              /\ BReturn(p, breq[p], "ok")

updateWrite(p, f) ==
    /\ breq[p].pc = "u_write"
    /\ FaultStep(f)
    /\ UNCHANGED <<dt, dnext, bops, wreq>>
    /\ BFrame
    /\ IF f \/ ownBooking(breq[p]) = {}
         THEN /\ UNCHANGED db
              /\ BReturn(p, breq[p], "Could not update booking.")
         ELSE /\ db' = { IF row \in ownBooking(breq[p])
                           THEN [row EXCEPT !.player_name = breq[p].members[1],
                                            !.team_members = breq[p].members,
                                            !.team_size = teamSizeOf(breq[p].trow)]
                           ELSE row : row \in db }
              /\ BReturn(p, breq[p], "ok")

\* teamMembers values of a route request
BookTeamInputs == { << >>, <<NameAUpperPadded, NameB>> }

\* bookingId values of an update request: the rows' ids and an empty one
DbBookingIds == { row.id : row \in db } \cup {0}

\* a wallet step of the spendCredits call that a booking request is waiting for
SpendStep(p) == breq[p].pc = "b_spend"

\* a request of the booking route moves on from one await to the next
BStepNext ==
    \/ \E p \in WProcSet, f \in BOOLEAN : getTournamentRow(p, f)
    \/ \E p \in WProcSet, f \in BOOLEAN : selectExistingBookings(p, f)
    \/ \E p \in WProcSet, f \in BOOLEAN : insertBooking(p, f)
    \/ \E p \in WProcSet, f \in BOOLEAN : SpendStep(p) /\ ensureBalanceRow(p, f)
    \/ \E p \in WProcSet, f \in BOOLEAN : SpendStep(p) /\ ensureBalanceInsert(p, f)
    \/ \E p \in WProcSet, f \in BOOLEAN : SpendStep(p) /\ updateBalance(p, f)
    \/ \E p \in WProcSet, f \in BOOLEAN : SpendStep(p) /\ insertLedgerTxn(p, f)
    \/ \E p \in WProcSet : spendReturned(p)
    \/ \E p \in WProcSet, f \in BOOLEAN : rollbackBooking(p, f)
    \/ \E p \in WProcSet, f \in BOOLEAN : recalcTournamentCounts(p, f)
    \/ \E p \in WProcSet, f \in BOOLEAN : getOnlineBookingCount(p, f)
    \/ \E p \in WProcSet, f \in BOOLEAN : recalcUpdate(p, f)
    \/ \E p \in WProcSet, f \in BOOLEAN : updateSelectBooking(p, f)
    \/ \E p \in WProcSet, f \in BOOLEAN : updateSelectAll(p, f)
    \/ \E p \in WProcSet, f \in BOOLEAN : updateWrite(p, f)

BNext ==
    \/ \E p \in WProcSet, t \in TIds, u \in Users, n \in NameInputs, m \in BookTeamInputs :
          POST(p, t, u, n, m)
    \/ \E p \in WProcSet, t \in TIds, u \in Users, b \in DbBookingIds, m \in BookTeamInputs,
          late \in BOOLEAN :
          updateTeamMembersMode(p, t, u, b, m, late)
    \/ BStepNext

SpecBookDb == InitBookDb /\ [][BNext]_vars

(***************************************************************************)
(* Database-backed admin route of one tournament (PATCH and DELETE         *)
(* /api/admin/tournaments/[id]), and the tournaments under either store.   *)
(***************************************************************************)
\* the bodies of a PATCH request: manualSoldSlots, clear, roomId with
\* roomPassword, roomId alone
PatchBodies ==
    { [kind |-> "manualSoldSlots", manualSoldSlots |-> k] : k \in ManualInputs }
      \cup { [kind |-> k, manualSoldSlots |-> 0] : k \in {"clear", "room", "roomIdOnly"} }

\* ---- PATCH, lines 300-305 ----
PATCH(p, tournamentId, body) ==
    BStart(p,
           [IdleBooking EXCEPT !.pc = "a_tour", !.mode = body.kind, !.t = tournamentId,
                               !.manual = body.manualSoldSlots],
           "")

\* ---- DELETE, lines 420-425 ----
DELETE(p, tournamentId) ==
    BStart(p, [IdleBooking EXCEPT !.pc = "a_tour", !.mode = "delete", !.t = tournamentId], "")

\* ---- getTournamentRow of the admin route, lines 201-212, and what follows
\* it up to the next await
admin_getTournamentRow(p, f) ==
    /\ breq[p].pc = "a_tour"
    /\ FaultStep(f)
    /\ UNCHANGED <<dt, db, dnext, bops, wreq>>
    /\ BFrame
    /\ \E rec \in {breq[p]} :
         IF f \/ rec.t \notin DOMAIN dt
           THEN BReturn(p, rec, "Tournament not found.")
         ELSE IF rec.mode = "manualSoldSlots"
           THEN BGoto(p, [rec EXCEPT !.pc = "a_cnt", !.trow = dt[rec.t]])
         ELSE IF rec.mode = "clear"
           THEN BGoto(p, [rec EXCEPT !.pc = "a_clear", !.trow = dt[rec.t]])
         ELSE IF rec.mode = "roomIdOnly"
           THEN BReturn(p, rec, "Both Room ID and Room Password are required.")
         ELSE IF rec.mode = "room"
           THEN BGoto(p, [rec EXCEPT !.pc = "a_room", !.trow = dt[rec.t]])
         ELSE BGoto(p, [rec EXCEPT !.pc = "d_bookings", !.trow = dt[rec.t]])

\* ---- PATCH, line 330: getOnlineBookingCount; it throws on a storage error
PATCH_getOnlineBookingCount(p, f) ==
    /\ breq[p].pc = "a_cnt"
    /\ FaultStep(f)
    /\ UNCHANGED <<dt, db, dnext, bops, wreq>>
    /\ BFrame
    /\ IF f THEN BReturn(p, breq[p], "unhandled error")
       ELSE BGoto(p, [breq[p] EXCEPT !.pc = "a_manual",
                                     !.cnt = Cardinality(rowsOfTournament(breq[p].t))])

\* PATCH, lines 331-342: the values it writes (requested is not clamped to
\* maxSlots alone but to what the bookings leave)
nextManualSold_upToMaxSlots(current, onlineBookedCount, requested) ==
    clamp(requested, 0, Max(1, current.max_slots))

nextManualSold(current, onlineBookedCount, requested) ==
    clamp(requested, 0, Max(0, Max(1, current.max_slots) - onlineBookedCount))

nextBookedCount(current, onlineBookedCount, requested) ==
    clamp(onlineBookedCount + nextManualSold(current, onlineBookedCount, requested),
          0, Max(1, current.max_slots))

nextStatus_fromCountAlone(current, onlineBookedCount, requested) ==
    IF nextBookedCount(current, onlineBookedCount, requested) >= Max(1, current.max_slots)
      THEN "FULL" ELSE "OPEN"

nextStatus(current, onlineBookedCount, requested) ==
    IF current.status = "COMPLETED" THEN "COMPLETED"
    ELSE IF nextBookedCount(current, onlineBookedCount, requested)
              >= Max(1, current.max_slots)
      THEN "FULL"
    ELSE "OPEN"

\* ---- PATCH, lines 344-364: the update of the three columns ----
PATCH_manualSoldSlots(p, f) ==
    /\ breq[p].pc = "a_manual"
    /\ FaultStep(f)
    /\ UNCHANGED <<db, dnext, bops, wreq>>
    /\ BFrame
    /\ \E rec \in {breq[p]} :
         IF f \/ rec.t \notin DOMAIN dt
           THEN /\ UNCHANGED dt
                /\ BReturn(p, rec, StorageError)
           ELSE /\ dt' = [dt EXCEPT ![rec.t] =
                            [@ EXCEPT
                                !.manual_sold_slots = nextManualSold(rec.trow, rec.cnt, rec.manual),
                                !.booked_count = nextBookedCount(rec.trow, rec.cnt, rec.manual),
                                !.status = nextStatus(rec.trow, rec.cnt, rec.manual)]]
                /\ BReturn(p, rec, "ok")

\* ---- PATCH, lines 366-385 (clear) and 396-408 (room): the update ----
PATCH_room(p, f) ==
    /\ breq[p].pc \in {"a_clear", "a_room"}
    /\ FaultStep(f)
    /\ UNCHANGED <<db, dnext, bops, wreq>>
    /\ BFrame
    /\ IF f \/ breq[p].t \notin DOMAIN dt
         THEN /\ UNCHANGED dt
              /\ BReturn(p, breq[p], StorageError)
         ELSE /\ dt' = [dt EXCEPT ![breq[p].t].room = (breq[p].pc = "a_room")]
              /\ BReturn(p, breq[p], "ok")

\* ---- DELETE, lines 432-439: delete the bookings of the tournament ----
DELETE_bookings(p, f) ==
    /\ breq[p].pc = "d_bookings"
    /\ FaultStep(f)
    /\ UNCHANGED <<dt, dnext, bops, wreq>>
    /\ BFrame
    /\ IF f
         THEN /\ UNCHANGED db
              /\ BReturn(p, breq[p], StorageError)
         ELSE /\ db' = db \ rowsOfTournament(breq[p].t)
              /\ BGoto(p, [breq[p] EXCEPT !.pc = "d_tour"])

\* ---- DELETE, lines 441-450: delete the tournament ----
DELETE_tournament(p, f) ==
    /\ breq[p].pc = "d_tour"
    /\ FaultStep(f)
    /\ UNCHANGED <<db, dnext, bops, wreq>>
    /\ BFrame
    /\ IF f
         THEN /\ UNCHANGED dt
              /\ BReturn(p, breq[p], StorageError)
         ELSE /\ dt' = [t \in (DOMAIN dt) \ {breq[p].t} |-> dt[t]]
              /\ BReturn(p, breq[p], "ok")

AdminNext ==
    \/ \E p \in WProcSet, t \in TIds, body \in PatchBodies : PATCH(p, t, body)
    \/ \E p \in WProcSet, t \in TIds : DELETE(p, t)
    \/ \E p \in WProcSet, f \in BOOLEAN : admin_getTournamentRow(p, f)
    \/ \E p \in WProcSet, f \in BOOLEAN : PATCH_getOnlineBookingCount(p, f)
    \/ \E p \in WProcSet, f \in BOOLEAN : PATCH_manualSoldSlots(p, f)
    \/ \E p \in WProcSet, f \in BOOLEAN : PATCH_room(p, f)
    \/ \E p \in WProcSet, f \in BOOLEAN : DELETE_bookings(p, f)
    \/ \E p \in WProcSet, f \in BOOLEAN : DELETE_tournament(p, f)

\* the file-backed store; or the admin route next to booking requests for
\* the name "a" and team updates to <<"  A ", "b">>
TournamentNext ==
    \/ FNext
    \/ AdminNext
    \/ \E p \in WProcSet, t \in TIds, u \in Users, n \in {NameA, NameC} :
          POST(p, t, u, n, << >>)
    \/ \E p \in WProcSet, t \in TIds, u \in Users, b \in DbBookingIds, late \in BOOLEAN :
          updateTeamMembersMode(p, t, u, b, <<NameAUpperPadded, NameB>>, late)
    \/ BStepNext

\* the tournaments table as the booking route's checks start from it, or
\* with t2 marked COMPLETED, or after a PATCH of t1 with manualSoldSlots 1
DSeeds ==
    { DSeedTournaments,
      [DSeedTournaments EXCEPT !["t2"].status = "COMPLETED"],
      [DSeedTournaments EXCEPT !["t1"].manual_sold_slots = 1,
                               !["t1"].booked_count = 2,
                               !["t1"].status = "FULL"] }

\* either the file-backed store, or the tables with u1's booking of t1
InitTournament ==
    \/ /\ FInit
       /\ WUntouched
       /\ BUntouched
    \/ /\ dt \in DSeeds
       /\ db = {DSeedBooking}
       /\ dnext = 2
       /\ breq = [p \in WProcSet |-> IdleBooking]
       /\ bops = 0
       /\ wbal = [u \in Users |-> IF u = "u1" THEN 200 ELSE NoRow]
       /\ wledger = SetToBag({DSeedCredit, DSeedDebit})
       /\ wadmin = << >>
       /\ wwd = << >>
       /\ wreq = [p \in WProcSet |-> IdleReq]
       /\ wops = 0
       /\ wfaults = 0
       /\ wimpl = "supabase"
       /\ wnet = [u \in Users |-> IF u = "u1" THEN 200 ELSE 0]
       /\ wclaim = [ok |-> 0, used |-> 0, other |-> 0, credited |-> 0]
       /\ FUntouched

SpecTournament == InitTournament /\ [][TournamentNext]_vars

(***************************************************************************)
(* Properties, database-backed wallet (SpecWalletDb).                      *)
(***************************************************************************)
\* C1: whenever every wallet call has returned, each user's stored balance
\* equals the sum of the user's CREDIT ledger amounts minus the sum of the
\* user's DEBIT ledger amounts.
C1_BalanceEqualsLedger ==
    WQuiescent =>
        \A u \in Users : Balance(u) = LedgerSum(u, "CREDIT") - LedgerSum(u, "DEBIT")

\* C2: overlapping credits and debits on one user take effect as if run one
\* after the other: when all calls have returned and no storage call failed,
\* the balance is the starting balance plus every successful credit minus
\* every successful debit.
C2_NoLostUpdate ==
    (WQuiescent /\ wfaults = 0) => \A u \in Users : Balance(u) = wnet[u]

\* C3: once a registered deposit has been used up by claimCreditsByTxnId
\* calls, exactly one of those calls has succeeded and the balances went up
\* by the deposit's amount exactly once.
C3_ClaimExactlyOnce ==
    WQuiescent =>
        \A i \in 1..Len(wadmin) :
            wadmin[i].status = "CLAIMED" =>
                /\ wclaim.ok = 1
                /\ wclaim.credited = wadmin[i].amount

\* C4: after claimCreditsByTxnId has returned, a deposit is CLAIMED exactly
\* when a CREDIT ledger entry of its amount is recorded for the user named in
\* claimed_by_user_id.
C4_ClaimedIffCredited ==
    WQuiescent =>
        \A i \in 1..Len(wadmin) :
            (wadmin[i].status = "CLAIMED") <=>
                (\E e \in DepositCredits(i) :
                    /\ e.userId = wadmin[i].claimed_by_user_id
                    /\ e.amount = wadmin[i].amount)

(***************************************************************************)
(* Properties, file-backed tournament store (SpecFileStore).               *)
(***************************************************************************)
\* the names of a booking, compared trimmed and lower-cased
NamesIn(b) ==
    ({ normalizePlayerName(b.playerName) }
        \cup { normalizePlayerName(b.teamMembers[i]) : i \in 1..Len(b.teamMembers) })
    \ { BlankName }

\* C8: in the file-backed store no name, compared trimmed and lower-cased,
\* is captain or team member of more than one booking of the same tournament.
C8_NoNameInTwoBookings ==
    \A i, j \in 1..Len(fb) :
        (i < j /\ fb[i].tournamentId = fb[j].tournamentId)
            => NamesIn(fb[i]) \cap NamesIn(fb[j]) = {}

\* C8 witness: a tournament holds two bookings, one of them a two-member team
\* whose stored name differs from its normalized form, and a team-member
\* update that collided with the other booking has just been refused.
C8_Witness ==
    /\ fout.op = "updateBookingTeamMembers"
    /\ fout.reason = NameConflict
    /\ \E i, j \in 1..Len(fb) :
          /\ i # j
          /\ fb[i].tournamentId = fb[j].tournamentId
          /\ Len(fb[i].teamMembers) = 2
          /\ \E k \in 1..2 : fb[i].teamMembers[k].upper

\* C10: in the file-backed store no two bookings of the same tournament have
\* the same slotNumber.
C10_SlotNumbersDistinct ==
    \A i, j \in 1..Len(fb) :
        (i < j /\ fb[i].tournamentId = fb[j].tournamentId)
            => fb[i].slotNumber # fb[j].slotNumber

(***************************************************************************)
(* Properties, database-backed booking route (SpecBookDb).                 *)
(***************************************************************************)
BQuiescent == \A p \in WProcSet : ~InFlight(p)

\* a booking request that has returned after its insert had given it row id
BookedAndBack(p) ==
    /\ breq[p].pc = "done"
    /\ breq[p].mode = "book"
    /\ breq[p].id # 0

RowLives(p) == \E row \in db : row.id = breq[p].id

\* C5: once the booking requests have returned, and with no storage error at
\* all, the live booking rows of a tournament plus its manualSoldSlots do not
\* exceed its maxSlots.
C5_CapacityNeverExceeded ==
    (BQuiescent /\ wfaults = 0) =>
        \A t \in DOMAIN dt :
            Cardinality(rowsOfTournament(t)) + dt[t].manual_sold_slots
                <= Max(1, dt[t].max_slots)

\* C6: for a tournament with an entry fee, after a booking request has
\* returned, the row it inserted is live if and only if spendCredits wrote the
\* fee off the user's balance for it.
C6_BookingIffFeeDebited ==
    \A p \in WProcSet :
        (BookedAndBack(p) /\ dt[breq[p].t].entry_fee > 0)
            => (RowLives(p) <=> breq[p].paid)

\* C7: a booking request of a user whose balance was below the entry fee
\* fails, leaves no booking row of its own, and leaves the user's balance as
\* it was.
C7_PoorUserLeavesNoTrace ==
    \A p \in WProcSet :
        (breq[p].pc = "done" /\ breq[p].mode = "book" /\ breq[p].poor)
            => /\ breq[p].out # "ok"
               /\ breq[p].id # 0 => ~RowLives(p)
               /\ Max(0, wbal[breq[p].user]) = breq[p].bal0

\* C9: two requests on the same tournament (two new bookings, or a new booking
\* and a team-member update of another booking) that were in flight at the
\* same time and share a normalized member name have not both succeeded.
C9_OverlappingSameNameNotBoth ==
    \A p, q \in WProcSet :
        (/\ p # q
         /\ breq[p].pc = "done" /\ breq[q].pc = "done"
         /\ breq[p].mode = "book"
         /\ breq[p].id # breq[q].id
         /\ breq[p].ovl /\ breq[q].ovl
         /\ breq[p].t = breq[q].t
         /\ normalizedNames(breq[p].members) \cap normalizedNames(breq[q].members) # {})
            => ~(breq[p].out = "ok" /\ breq[q].out = "ok")

\* C11: once the booking requests have returned, and with no storage error at
\* all, no two live booking rows of one tournament have the same slot_number.
C11_DbSlotNumbersDistinct ==
    (BQuiescent /\ wfaults = 0) =>
        \A r1, r2 \in db :
            (r1.id # r2.id /\ r1.tournament_id = r2.tournament_id)
                => r1.slot_number # r2.slot_number

(***************************************************************************)
(* Properties, wallet under either store module (SpecWallet).              *)
(***************************************************************************)
\* in this step the spendCredits call of p reads a balance below its amount:
\* the whole call in the file-backed store, the read of the balance row in
\* the database-backed one
SpendReadsBelow(p) ==
    /\ wreq'[p].op = "spend"
    /\ wreq'[p].amount > 0
    /\ \/ wimpl = "file" /\ wreq'[p].n # wreq[p].n
       \/ /\ wimpl = "supabase"
          /\ wreq[p].pc = "ens"
          /\ wreq'[p].pc # "ens"
          /\ wbal[wreq[p].user] # NoRow
    /\ Balance(wreq'[p].user) < wreq'[p].amount

SpendRefused(p) ==
    /\ wreq'[p].pc = "done"
    /\ wreq'[p].out = NotEnough
    /\ ~wreq'[p].wrote
    /\ wbal' = wbal
    /\ wledger' = wledger

NoNegativeBalance == \A u \in Users : wbal[u] = NoRow \/ wbal[u] >= 0

\* C12: a spendCredits call whose amount is above the balance it finds
\* returns "Not enough balance." and leaves balance and ledger as they were,
\* and no balance is ever negative.  A storage fault on the read of the
\* balance is no business outcome: it is returned as the generic failure.
C12_SpendAboveBalanceRefused ==
    /\ [][\A p \in WProcSet :
            (SpendReadsBelow(p) /\ wfaults' = wfaults) => SpendRefused(p)]_vars
    /\ []NoNegativeBalance

C12_Witness ==
    \E p \in WProcSet :
        /\ wreq[p].pc = "done"
        /\ wreq[p].op = "spend"
        /\ wreq[p].out = NotEnough
        /\ wreq[p].amount > Balance(wreq[p].user)
        /\ Balance(wreq[p].user) > 0

\* C13: a wallet call that has returned a failure has written no balance (and
\* so, since every ledger entry and withdrawal row is written after the
\* balance, no ledger entry and no withdrawal row either).
C13_FailureLeavesNoTrace ==
    \A p \in WProcSet :
        (wreq[p].pc = "done" /\ wreq[p].out # "ok") => ~wreq[p].wrote

\* in this step the markWithdrawalPaid call of p returns, and the request it
\* named exists
PaidReturns(p) ==
    /\ wreq'[p] # wreq[p]
    /\ wreq'[p].pc = "done"
    /\ wreq'[p].op = "paid"
    /\ wreq'[p].ref <= Len(wwd)

\* C14: a markWithdrawalPaid call succeeds only by taking the request from
\* PENDING to PAID, which, as a PAID request stays PAID, happens once for a
\* request; every other call finds the request PAID, returns "Request
\* already marked paid." and changes no request, balance or ledger entry.
\* A call that met a storage fault returns the generic failure, and changes
\* nothing either.
C14_ExactlyOnePaid ==
    [][\A p \in WProcSet :
          PaidReturns(p) =>
              IF wreq'[p].out = "ok"
                THEN /\ wwd[wreq'[p].ref].status = "PENDING"
                     /\ wwd' = [wwd EXCEPT ![wreq'[p].ref].status = "PAID"]
                ELSE /\ wwd' = wwd /\ wbal' = wbal /\ wledger' = wledger
                     /\ \/ /\ wreq'[p].out = AlreadyPaid
                           /\ wwd[wreq'[p].ref].status = "PAID"
                        \/ /\ wfaults' # wfaults
                           /\ wreq'[p].out = StorageError]_vars

\* two calls for one request have returned, one with success
C14_Witness ==
    \E p, q \in WProcSet :
        /\ wreq[p].pc = "done" /\ wreq[p].op = "paid" /\ wreq[p].out = "ok"
        /\ wreq[q].pc = "done" /\ wreq[q].op = "paid" /\ wreq[q].out = AlreadyPaid
        /\ wreq[p].ref = wreq[q].ref
        /\ wwd[wreq[p].ref].status = "PAID"

\* this step is the call requestWithdrawal(u, w) of p: its first step in the
\* database-backed store, the whole call in the file-backed one
WithdrawalCalled(p, u, w) ==
    \/ requestWithdrawal(p, u, w.upiIdInput, w.amountInput)
    \/ file_requestWithdrawal(p, u, w.upiIdInput, w.amountInput)

\* the inputs the claim lists: an amount below 200 (so also none above 0),
\* an amount that is not whole, a destination without "@"
InvalidWithdrawal(w) ==
    \/ w.amountInput.whole < 200
    \/ w.amountInput.half
    \/ ~includesAt(trimUpi(w.upiIdInput))

\* in this step the requestWithdrawal call of p writes the balance
WithdrawalWrites(p) ==
    /\ wreq'[p].op = "withdraw"
    /\ wreq'[p].wrote
    /\ wreq'[p].n # wreq[p].n \/ ~wreq[p].wrote

\* C15: a requestWithdrawal call with an invalid input returns a failure at
\* once and changes no table; a call for 200 that finds a balance of 200 or
\* more in the file-backed store succeeds; whenever a call writes the
\* balance it lowers the stored balance by exactly its amount, and a call
\* that has written the balance returns success.
C15_WithdrawalValidatedAndDebitedAtOnce ==
    [][/\ \A p \in WProcSet, u \in Users, w \in WithdrawalInputs :
            WithdrawalCalled(p, u, w) =>
                IF InvalidWithdrawal(w)
                  THEN /\ wreq'[p].pc = "done"
                       /\ wreq'[p].out # "ok"
                       /\ WTables' = WTables
                  ELSE (wimpl = "file" /\ Balance(u) >= w.amountInput.whole)
                           => wreq'[p].out = "ok"
       /\ \A p \in WProcSet :
            WithdrawalWrites(p) =>
                wbal'[wreq'[p].user] = Balance(wreq'[p].user) - wreq'[p].amount
       /\ \A p \in WProcSet :
            (wreq'[p].op = "withdraw" /\ wreq'[p].pc = "done" /\ wreq'[p].wrote)
                => wreq'[p].out = "ok"]_vars

\* C16: when no wallet call is in progress, the withdrawal requests of a user
\* for an amount (PENDING or PAID) are as many as the user's withdrawal DEBIT
\* ledger entries of that amount; and a requestWithdrawal call that returned
\* "Not enough balance." has written nothing.
C16_EveryWithdrawalHasItsDebit ==
    /\ WQuiescent =>
         \A u \in Users, a \in {wwd[i].amount : i \in 1..Len(wwd)} :
             Cardinality({i \in 1..Len(wwd) : wwd[i].user_id = u /\ wwd[i].amount = a})
                 = LedgerTotal({e \in DOMAIN wledger :
                                   /\ e.userId = u /\ e.type = "DEBIT"
                                   /\ e.note[1] = "withdrawal" /\ e.amount = a}) \div a
    /\ \A p \in WProcSet :
         (wreq[p].pc = "done" /\ wreq[p].op = "withdraw" /\ wreq[p].out = NotEnough)
             => ~wreq[p].wrote

\* C17: in every step every withdrawal request stays, for the same user and
\* amount, and its status stays as it was or goes from PENDING to PAID.
C17_WithdrawalStatusOnlyForward ==
    [][/\ Len(wwd') >= Len(wwd)
       /\ \A i \in 1..Len(wwd) :
            /\ wwd'[i].user_id = wwd[i].user_id
            /\ wwd'[i].amount = wwd[i].amount
            /\ \/ wwd'[i].status = wwd[i].status
               \/ wwd[i].status = "PENDING" /\ wwd'[i].status = "PAID"]_vars

\* a request was marked paid, and a later call has written the store
C17_Witness ==
    \E p, q \in WProcSet :
        /\ wreq[p].pc = "done" /\ wreq[p].op = "paid" /\ wreq[p].out = "ok"
        /\ wwd[wreq[p].ref].status = "PAID"
        /\ wreq[q].pc = "done" /\ wreq[q].out = "ok" /\ wreq[q].n > wreq[p].n

\* C18: a step of a markWithdrawalPaid call changes no balance, no ledger
\* entry and no deposit entry; it changes no withdrawal request either,
\* unless it is the step by which the call succeeds, which changes the
\* status of the request it names, and nothing else, to PAID.
C18_MarkPaidTouchesOnlyItsRequest ==
    [][\A p \in WProcSet :
          (wreq'[p] # wreq[p] /\ wreq'[p].op = "paid") =>
              /\ wbal' = wbal
              /\ wledger' = wledger
              /\ wadmin' = wadmin
              /\ \/ wwd' = wwd
                 \/ /\ wreq'[p].out = "ok"
                    /\ wreq'[p].ref \in 1..Len(wwd)
                    /\ wwd' = [wwd EXCEPT ![wreq'[p].ref].status = "PAID"]]_vars

\* a call has marked one of two requests of a user with a ledger paid
C18_Witness ==
    \E p \in WProcSet :
        /\ wreq[p].pc = "done" /\ wreq[p].op = "paid" /\ wreq[p].out = "ok"
        /\ Len(wwd) = 2
        /\ wwd[wreq[p].ref].status = "PAID"
        /\ wledger # EmptyBag

C20_DepositStatusOnlyForward ==
    [][/\ Len(wadmin') >= Len(wadmin)
       /\ \A i \in 1..Len(wadmin) :
            /\ \/ wadmin'[i].status = wadmin[i].status
               \/ wadmin[i].status = "AVAILABLE" /\ wadmin'[i].status = "CLAIMED"
            /\ wadmin[i].claimed_by_user_id # ""
                 => wadmin'[i].claimed_by_user_id = wadmin[i].claimed_by_user_id]_vars

\* a deposit was claimed by one user, and the claim of another was refused
C20_Witness ==
    \E p, q \in WProcSet :
        /\ wreq[p].pc = "done" /\ wreq[p].op = "claim" /\ wreq[p].out = "ok"
        /\ wreq[q].pc = "done" /\ wreq[q].op = "claim" /\ wreq[q].out = AlreadyUsed
        /\ wreq[p].user # wreq[q].user
        /\ wadmin[wreq[p].ref].status = "CLAIMED"
        /\ wadmin[wreq[p].ref].claimed_by_user_id = wreq[p].user

(***************************************************************************)
(* Properties, tournaments and bookings.                                   *)
(***************************************************************************)
\* the tournament as the call reads it is COMPLETED or has no slot left
FullAsRead(t) ==
    /\ t \in DOMAIN ft
    /\ \/ readStore.tournaments[t].status = "COMPLETED"
       \/ readStore.tournaments[t].bookedCount >= readStore.tournaments[t].maxSlots

BookedNow(t) ==
    /\ fout.op = "createBookingAndIncrement"
    /\ fout.ok
    /\ \E i \in 1..Len(fb) : fb[i].id = fout.id /\ fb[i].tournamentId = t

\* C22: no createBookingAndIncrement call succeeds for a tournament whose
\* room was published at some earlier time, whatever calls came between.
C22_PublishedRoomClosesBookingForGood ==
    \A t \in DOMAIN ft : ft[t].published => ~BookedNow(t)

C24_CompletedStays ==
    [][/\ \A t \in (DOMAIN ft) \cap (DOMAIN ft') :
            ft[t].status = "COMPLETED" => ft'[t].status = "COMPLETED"
       /\ \A t \in (DOMAIN dt) \cap (DOMAIN dt') :
            dt[t].status = "COMPLETED" => dt'[t].status = "COMPLETED"]_vars

\* on a COMPLETED tournament a manual-slot edit was written and a booking
\* request was refused
C24_Witness ==
    \E p, q \in WProcSet :
        /\ breq[p].pc = "done" /\ breq[p].mode = "manualSoldSlots" /\ breq[p].out = "ok"
        /\ breq[q].pc = "done" /\ breq[q].mode = "book" /\ breq[q].out = TournamentFull
        /\ breq[p].t = breq[q].t
        /\ breq[p].t \in DOMAIN dt
        /\ dt[breq[p].t].status = "COMPLETED"
        /\ dt[breq[p].t].manual_sold_slots > 0

\* C25: whenever no request is in progress, and no storage fault has
\* occurred, each tournament's booked_count is min(max_slots, number of its
\* booking rows + manual_sold_slots) and, unless it is COMPLETED, its status
\* is FULL exactly when booked_count >= max_slots and OPEN otherwise.
C25_StoredCountsDerivable ==
    (BQuiescent /\ wfaults = 0) =>
        \A t \in DOMAIN dt :
            /\ dt[t].booked_count =
                  Min(Max(1, dt[t].max_slots),
                      Cardinality(rowsOfTournament(t)) + dt[t].manual_sold_slots)
            /\ dt[t].status # "COMPLETED" =>
                  dt[t].status = IF dt[t].booked_count >= Max(1, dt[t].max_slots)
                                   THEN "FULL" ELSE "OPEN"

\* the booking of that id is another user's
OthersFileBooking(bookingId, userId) ==
    \E i \in 1..Len(fb) : fb[i].id = bookingId /\ fb[i].userId # userId

OthersRow(bookingId, userId) ==
    \E row \in db : row.id = bookingId /\ row.user_id # userId

\* C26: an update of the team members of a booking that belongs to another
\* user changes no booking and fails with "Booking not found." (with
\* "Tournament not found." when the tournament of the request cannot be
\* read).  File-backed: the updateBookingTeamMembers call; database-backed:
\* every step of the request up to its answer.
C26_OnlyOwnerUpdatesTeam ==
    [][/\ \A b \in BookingIds, u \in Users :
            (fout'.op = "updateBookingTeamMembers" /\ OthersFileBooking(b, u)) =>
                \A t \in TIds, m \in TeamInputs, late \in BOOLEAN :
                    updateBookingTeamMembers(t, u, b, m, late) =>
                        /\ fb' = fb
                        /\ ~fout'.ok
                        /\ fout'.reason \in {"Booking not found.", "Tournament not found."}
       /\ \A p \in WProcSet :
            (/\ InFlight(p)
             /\ breq[p].mode = "update"
             /\ breq'[p].pc # breq[p].pc
             /\ OthersRow(breq[p].id, breq[p].user)) =>
                /\ db' = db
                /\ breq'[p].pc = "done" =>
                      breq'[p].out \in {"Booking not found.", "Tournament not found."}]_vars

\* u2 asked the route to update u1's booking and was told it was not found
C26_Witness ==
    \E p \in WProcSet :
        /\ breq[p].pc = "done"
        /\ breq[p].mode = "update"
        /\ breq[p].out = "Booking not found."
        /\ \E row \in db : /\ row.id = breq[p].id
                           /\ row.tournament_id = breq[p].t
                           /\ row.user_id # breq[p].user

\* C27: in every state each booking's tournament exists, in the file-backed
\* store and in the tables.
C27_EveryBookingHasItsTournament ==
    /\ \A i \in 1..Len(fb) : fb[i].tournamentId \in DOMAIN ft
    /\ \A row \in db : row.tournament_id \in DOMAIN dt

\* the letters of the names a sequence holds, whatever their case and padding
Letters(names) == { names[i].base : i \in 1..Len(names) } \ {""}

\* C28: a booking request is refused for a name conflict only if a booking
\* of the same tournament holds one of the names it gave, compared without
\* case and padding; bookings of other tournaments never count.
C28_NameConflictWithinTournament ==
    [][/\ \A t \in TIds :
            (fout'.op = "createBookingAndIncrement" /\ fout'.reason = NameConflict) =>
                \A u \in Users, m \in TeamInputs, n \in NameInputs \cup {NameA} :
                    createBookingAndIncrement(t, u, n, m) =>
                        \E i \in 1..Len(fb) :
                            /\ fb[i].tournamentId = t
                            /\ Letters(<<n>> \o m)
                                 \cap Letters(<<fb[i].playerName>> \o fb[i].teamMembers) # {}
       /\ \A p \in WProcSet :
            (/\ breq[p].pc = "b_select"
             /\ breq'[p].pc = "done"
             /\ breq'[p].out = NameConflict) =>
                \E row \in db :
                    /\ row.tournament_id = breq[p].t
                    /\ Letters(breq[p].members)
                         \cap Letters(<<row.player_name>> \o row.team_members) # {}]_vars

\* the name "a" is booked in both tournaments, the second booking made by
\* a request of the route
C28_Witness ==
    /\ \E p \in WProcSet :
         breq[p].pc = "done" /\ breq[p].mode = "book" /\ breq[p].out = "ok"
    /\ \E r1, r2 \in db :
         /\ r1.tournament_id # r2.tournament_id
         /\ r1.player_name.base = r2.player_name.base

\* the largest slotNumber among the bookings of a sequence, 0 when it is empty
LargestSlot(bookings) ==
    IF Len(bookings) = 0 THEN 0
    ELSE CHOOSE n \in { bookings[i].slotNumber : i \in 1..Len(bookings) } :
            \A i \in 1..Len(bookings) : bookings[i].slotNumber <= n

\* C29: a successful createBookingAndIncrement gives the new booking the
\* slotNumber 1 + the largest slotNumber among the bookings the tournament
\* had (1 when it had none), whatever the value of manualSoldSlots.
C29_SlotIsOnePastLargest ==
    [][(/\ fout'.op = "createBookingAndIncrement"
        /\ fout'.ok
        /\ Len(fb') = Len(fb) + 1) =>
            \E new \in {fb'[Len(fb')]} :
                new.slotNumber = 1 + LargestSlot(BookingsOf(fb, new.tournamentId))]_vars

\* value clamped to [0, maxSlots - onlineBookedCount]
ClampedManual(value, maxSlots, onlineBookedCount) ==
    Max(0, Min(value, Max(0, maxSlots - onlineBookedCount)))

\* min(maxSlots, onlineBookedCount + manualSoldSlots), manualSoldSlots clamped
CappedBooked(value, maxSlots, onlineBookedCount) ==
    Min(maxSlots, onlineBookedCount + ClampedManual(value, maxSlots, onlineBookedCount))

\* C30: recalcTournamentCounts and the admin edit of manualSoldSlots take
\* onlineBookedCount as the number of booking rows of the tournament, clamp
\* the stored or requested manualSoldSlots to [0, maxSlots - onlineBookedCount],
\* take bookedCount as min(maxSlots, onlineBookedCount + manualSoldSlots),
\* and write these values to the tournament (a write answered with a storage
\* error set apart).
C30_CountsComputedAndPersisted ==
    [][/\ \A t \in TIds :
            (fout'.op = "setTournamentManualSoldSlots" /\ fout'.ok) =>
                \A k \in ManualInputs :
                    setTournamentManualSoldSlots(t, k) =>
                        \E online \in {Len(BookingsOf(fb, t))} :
                            /\ ft'[t].manualSoldSlots
                                 = ClampedManual(k, ft'[t].maxSlots, online)
                            /\ ft'[t].bookedCount
                                 = CappedBooked(k, ft'[t].maxSlots, online)
       /\ \A p \in WProcSet :
            \E rec \in {breq[p]} :
                /\ (/\ rec.pc \in {"rc_cnt", "a_cnt"}
                    /\ breq'[p].pc \in {"rc_upd", "a_manual"}) =>
                        breq'[p].cnt
                          = Cardinality({ row \in db : row.tournament_id = rec.t })
                /\ (/\ rec.pc = "rc_cnt"
                    /\ wfaults' = wfaults
                    /\ breq'[p].pc # rec.pc
                    /\ breq'[p].pc # "rc_upd") =>
                        \E online \in {Cardinality({ row \in db : row.tournament_id = rec.t })} :
                            /\ rec.trow.manual_sold_slots
                                 = ClampedManual(rec.trow.manual_sold_slots,
                                                 rec.trow.max_slots, online)
                            /\ rec.trow.booked_count
                                 = CappedBooked(rec.trow.manual_sold_slots,
                                                rec.trow.max_slots, online)
                /\ (/\ rec.pc = "rc_upd"
                    /\ wfaults' = wfaults
                    /\ breq'[p].pc # rec.pc
                    /\ rec.t \in DOMAIN dt) =>
                        /\ dt'[rec.t].manual_sold_slots
                             = ClampedManual(rec.trow.manual_sold_slots,
                                             rec.trow.max_slots, rec.cnt)
                        /\ dt'[rec.t].booked_count
                             = CappedBooked(rec.trow.manual_sold_slots,
                                            rec.trow.max_slots, rec.cnt)
                /\ (/\ rec.pc = "a_manual"
                    /\ wfaults' = wfaults
                    /\ breq'[p].pc # rec.pc
                    /\ rec.t \in DOMAIN dt) =>
                        /\ dt'[rec.t].manual_sold_slots
                             = ClampedManual(rec.manual, rec.trow.max_slots, rec.cnt)
                        /\ dt'[rec.t].booked_count
                             = CappedBooked(rec.manual, rec.trow.max_slots, rec.cnt)]_vars

\* an edit that asked for 3 manually sold slots has returned, and the
\* tournament of 2 slots with one booking holds 1 manually sold slot and a
\* bookedCount of 2
C30_Witness ==
    \E p \in WProcSet :
        /\ breq[p].pc = "done"
        /\ breq[p].mode = "manualSoldSlots"
        /\ breq[p].out = "ok"
        /\ breq[p].manual = 3
        /\ breq[p].t \in DOMAIN dt
        /\ dt[breq[p].t].max_slots = 2
        /\ Cardinality(rowsOfTournament(breq[p].t)) = 1
        /\ dt[breq[p].t].manual_sold_slots = 1
        /\ dt[breq[p].t].booked_count = 2

(***************************************************************************)
(* Properties, order of the checks and the team list.                      *)
(***************************************************************************)
\* the names a createBookingAndIncrement call books: the team list, or the
\* player name when the list is empty, cleaned and cut to the team size
NamesAsked(t, playerName, teamMembersInput) ==
    normalizeTeamMembers(IF Len(teamMembersInput) > 0 THEN teamMembersInput
                         ELSE <<playerName>>,
                         BlankName, getTeamSizeForTournament(readStore.tournaments[t]))

\* a booking of tournament t in the file holds one of the names
BookedInFile(t, names) ==
    \E i \in 1..Len(fb) :
        /\ fb[i].tournamentId = t
        /\ Letters(names) \cap Letters(<<fb[i].playerName>> \o fb[i].teamMembers) # {}

\* a booking row of tournament t holds one of the names
BookedInRows(t, names) ==
    \E row \in db :
        /\ row.tournament_id = t
        /\ Letters(names) \cap Letters(<<row.player_name>> \o row.team_members) # {}

\* the tournament row a request read is COMPLETED or has no slot left
FullForRequest(rec) ==
    \/ rec.trow.status = "COMPLETED"
    \/ Cardinality({ row \in db : row.tournament_id = rec.t }) + rec.trow.manual_sold_slots
         >= rec.trow.max_slots

\* C31: a booking request that names a booked player and targets a full
\* tournament fails with the name-conflict reason, and a request without such
\* a name to a tournament that is full and has its room published fails as
\* tournament full (a storage error on the select set apart).
C31_ChecksInOrder ==
    [][/\ \A t \in TIds :
            (fout'.op = "createBookingAndIncrement" /\ FullAsRead(t)) =>
                \A u \in Users, m \in TeamInputs, n \in NameInputs \cup {NameA} :
                    (/\ createBookingAndIncrement(t, u, n, m)
                     /\ Len(NamesAsked(t, n, m)) > 0) =>
                        /\ BookedInFile(t, NamesAsked(t, n, m))
                              => fout'.reason = NameConflict
                        /\ (~BookedInFile(t, NamesAsked(t, n, m))
                              /\ readStore.tournaments[t].room)
                              => fout'.reason = TournamentFull
       /\ \A p \in WProcSet :
            \E rec \in {breq[p]} :
                (/\ rec.pc = "b_select"
                 /\ FullForRequest(rec)
                 /\ breq'[p].pc # rec.pc
                 /\ wfaults' = wfaults) =>
                    /\ breq'[p].pc = "done"
                    /\ BookedInRows(rec.t, rec.members) => breq'[p].out = NameConflict
                    /\ (~BookedInRows(rec.t, rec.members) /\ rec.trow.room)
                          => breq'[p].out = TournamentFull]_vars

\* the route answered "This tournament is full." for a tournament that is
\* full and has its room published
C31_Witness ==
    \E p \in WProcSet :
        /\ breq[p].pc = "done"
        /\ breq[p].mode = "book"
        /\ breq[p].out = TournamentFull
        /\ breq[p].t \in DOMAIN dt
        /\ dt[breq[p].t].room
        /\ dt[breq[p].t].booked_count >= dt[breq[p].t].max_slots

\* C32: a createBookingAndIncrement call with a non-blank player name and a
\* team list that holds blank entries only (or none) does not fail for a
\* missing name, and when it succeeds it books the player name alone.
C32_BlankListFallsBackToCaptain ==
    [][\A t \in DOMAIN ft :
          (fout'.op = "createBookingAndIncrement") =>
              \A u \in Users, m \in TeamInputs, n \in NameInputs \cup {NameA} :
                  (/\ n.base # ""
                   /\ Letters(m) = {}
                   /\ createBookingAndIncrement(t, u, n, m)) =>
                      /\ fout'.reason # NoPlayerName
                      /\ fout'.ok =>
                            \E new \in {fb'[Len(fb')]} :
                                /\ new.playerName = trimName(n)
                                /\ new.teamMembers = <<trimName(n)>>]_vars

\* longest member list tried
NamesMaxLen == 3

\* member lists as submitted: every list of up to NamesMaxLen entries
NameLists ==
    UNION { [1..n -> {NameA, NameAUpperPadded, NameB, NameSpaces}] : n \in 0..NamesMaxLen }

\* the list normalizeTeamMembers works on: the input, or the fallback name
\* when the input has no entry that is not blank
SourceOf(members, fallbackName) ==
    IF Letters(members) # {} THEN members
    ELSE IF fallbackName.base # "" THEN <<fallbackName>>
    ELSE << >>

\* the positions of a list where a name that is not blank occurs first
FirstPlaces(src) ==
    { i \in 1..Len(src) :
        /\ src[i].base # ""
        /\ \A j \in 1..(i - 1) : src[j].base # src[i].base }

\* the k-th of these positions
Place(src, k) ==
    CHOOSE i \in FirstPlaces(src) : Cardinality({ j \in FirstPlaces(src) : j < i }) = k - 1

\* no blank entry, no two entries with the same letters, at most
\* max(1, teamSize) entries
CleanList(names, teamSize) ==
    /\ Len(names) <= Max(1, teamSize)
    /\ \A i \in 1..Len(names) : names[i].base # "" /\ ~names[i].pad
    /\ \A i, j \in 1..Len(names) : i # j => names[i].base # names[j].base

\* C33: for every member list, fallback name and team size normalizeTeamMembers
\* returns a list with no blank entry, no two entries equal after trim and
\* lower-casing and at most max(1, teamSize) entries, which holds the first
\* occurrence of each name in input order; the team size is 1 for SOLO and
\* non-bracket tournaments, 2 for DUO and 4 for SQUAD; and every stored
\* booking holds such a list.
C33_TeamListNormalized ==
    /\ \A members \in NameLists, fallbackName \in {NameA, NameSpaces, NameC},
          teamSize \in {0, 1, 2, 4} :
          \E names \in {normalizeTeamMembers(members, fallbackName, teamSize)},
             src \in {SourceOf(members, fallbackName)} :
             /\ CleanList(names, teamSize)
             /\ Len(names) = Min(Max(1, teamSize), Cardinality(FirstPlaces(src)))
             /\ \A k \in 1..Len(names) :
                   /\ names[k].base = src[Place(src, k)].base
                   /\ names[k].upper = src[Place(src, k)].upper
    /\ \A mode \in {"NONE", "SOLO", "DUO", "SQUAD"} :
          /\ getTeamSizeForTournament([matchType |-> "CS", brMode |-> mode]) = 1
          /\ inferTeamSize("CS", mode) = 1
          /\ getTeamSizeForTournament([matchType |-> "BR", brMode |-> mode])
               = (IF mode = "DUO" THEN 2 ELSE IF mode = "SQUAD" THEN 4 ELSE 1)
          /\ inferTeamSize("BR", mode)
               = (IF mode = "DUO" THEN 2 ELSE IF mode = "SQUAD" THEN 4 ELSE 1)
    /\ \A i \in 1..Len(fb) :
          fb[i].tournamentId \in DOMAIN ft =>
              CleanList(fb[i].teamMembers, getTeamSizeForTournament(ft[fb[i].tournamentId]))

\* a call has just booked a team of two whose first name was submitted with
\* capital letters and spaces around it and is stored trimmed
C33_Witness ==
    /\ fout.op = "createBookingAndIncrement"
    /\ fout.ok
    /\ \E i \in 1..Len(fb) :
          /\ fb[i].id = fout.id
          /\ Len(fb[i].teamMembers) = 2
          /\ fb[i].teamMembers[1].upper
          /\ ~fb[i].teamMembers[1].pad

\* the letters of the names an update asks for: those of its list, or the
\* booking's own player name when the list has no name
AskedLetters(teamMembersInput, bookingId) ==
    IF Letters(teamMembersInput) # {} THEN Letters(teamMembersInput)
    ELSE { fb[i].playerName.base : i \in { j \in 1..Len(fb) : fb[j].id = bookingId } } \ {""}

\* C34: an update of the team members fails with the name-conflict reason
\* only if another booking of the same tournament holds one of the names
\* asked for; the names of the booking being edited never count.
C34_UpdateConflictsWithOthersOnly ==
    [][/\ \A b \in BookingIds :
            (fout'.op = "updateBookingTeamMembers" /\ fout'.reason = NameConflict) =>
                \A t \in TIds, u \in Users, m \in TeamInputs, late \in BOOLEAN :
                    updateBookingTeamMembers(t, u, b, m, late) =>
                        \E i \in 1..Len(fb) :
                            /\ fb[i].tournamentId = t
                            /\ fb[i].id # b
                            /\ AskedLetters(m, b)
                                 \cap Letters(<<fb[i].playerName>> \o fb[i].teamMembers) # {}
       /\ \A p \in WProcSet :
            (/\ breq[p].pc = "u_all"
             /\ breq'[p].pc = "done"
             /\ breq'[p].out = NameConflict) =>
                \E row \in db :
                    /\ row.tournament_id = breq[p].t
                    /\ row.id # breq[p].id
                    /\ Letters(breq[p].members)
                         \cap Letters(<<row.player_name>> \o row.team_members) # {}]_vars

\* the first call on a store that held the team "A", "b" was an update that
\* resubmitted these two names, and it succeeded
C34_Witness ==
    /\ fout.op = "updateBookingTeamMembers"
    /\ fout.ok
    /\ fops = 1
    /\ \E i \in 1..Len(fb) :
          /\ fb[i].id = fout.id
          /\ Letters(fb[i].teamMembers) = {"a", "b"}

\* C35: an update of the team members by the owner of a booking fails with
\* the edit-window reason and changes nothing when the time is past the
\* tournament's start minus one hour, and never fails with that reason when
\* the start time cannot be parsed (a storage error on the select of the
\* booking set apart).
C35_EditCutoff ==
    [][/\ \A b \in BookingIds, t \in TIds, u \in Users :
            (/\ fout'.op = "updateBookingTeamMembers"
             /\ \E i \in 1..Len(fb) :
                   fb[i].id = b /\ fb[i].tournamentId = t /\ fb[i].userId = u) =>
                \A m \in TeamInputs, late \in BOOLEAN :
                    updateBookingTeamMembers(t, u, b, m, late) =>
                        /\ (ft[t].dateTime = "valid" /\ late) =>
                              /\ ~fout'.ok
                              /\ fout'.reason = TooLate
                              /\ fb' = fb
                              /\ ft' = ft
                        /\ ft[t].dateTime # "valid" => fout'.reason # TooLate
       /\ \A p \in WProcSet :
            \E rec \in {breq[p]} :
                /\ (/\ rec.pc = "u_booking"
                    /\ breq'[p].pc # rec.pc
                    /\ wfaults' = wfaults
                    /\ \E row \in db : /\ row.id = rec.id
                                       /\ row.tournament_id = rec.t
                                       /\ row.user_id = rec.user
                    /\ rec.trow.date_time = "valid"
                    /\ rec.late) =>
                        /\ breq'[p].pc = "done"
                        /\ breq'[p].out = TooLate
                        /\ db' = db
                        /\ dt' = dt
                /\ (/\ rec.mode = "update"
                    /\ rec.pc \notin {"idle", "done", "tour"}
                    /\ rec.trow.date_time # "valid"
                    /\ breq'[p].pc = "done") =>
                        breq'[p].out # TooLate]_vars

\* the route refused an update of u1's booking of t1 as too late, and the
\* booking still holds the name "c"
C35_Witness ==
    \E p \in WProcSet :
        /\ breq[p].pc = "done"
        /\ breq[p].mode = "update"
        /\ breq[p].out = TooLate
        /\ \E row \in db :
              /\ row.id = breq[p].id
              /\ row.user_id = breq[p].user
              /\ Letters(row.team_members) = {"c"}

(***************************************************************************)
(* Properties, the write queue.                                            *)
(***************************************************************************)
\* C36: of the operations passed to withWriteLock of one store at most one
\* runs at a time, they are invoked in the order of the calls and never more
\* than once, and every call's operation is invoked in the end, also after
\* an operation that rejected.
C36_WriteLockSerializes ==
    /\ [](/\ Cardinality({ k \in 1..Len(lockCalls) : lockCalls[k].next = "running" }) <= 1
          /\ \A i \in 1..Len(lockOrder) : lockOrder[i] = i
          /\ \A k \in 1..Len(lockCalls) : lockCalls[k].starts <= 1)
    /\ \A k \in 1..LMaxCalls :
          (Len(lockCalls) >= k) ~> (Len(lockCalls) >= k /\ lockCalls[k].starts = 1)

\* an operation rejected and the operation of the next call has run and returned
C36_Witness ==
    \E k \in 2..Len(lockCalls) :
        /\ lockCalls[k - 1].next = "rejected"
        /\ lockCalls[k].next = "fulfilled"
        /\ lockCalls[k].starts = 1

(***************************************************************************)
(* Properties, the two wallet stores side by side.                         *)
(***************************************************************************)
\* what a caller can see of the tables: balances (0 without a wallet),
\* deposits and withdrawal requests with their statuses
Visible(r, bal, admin, wd) ==
    [r |-> r,
     bal |-> [u \in Users |-> IF bal[u] = NoRow THEN 0 ELSE bal[u]],
     deposits |-> [i \in 1..Len(admin) |->
                     <<normalizeTxnId(admin[i].txn_id), admin[i].amount, admin[i].status>>],
     withdrawals |-> [i \in 1..Len(wd) |-> <<wd[i].user_id, wd[i].amount, wd[i].status>>]]

\* the call c run by the file-backed store on the tables pre, as its source
\* reads (data/wallet.db.json store, lines 214-537)
FileOutcome(c, pre) ==
    LET hit == { i \in 1..Len(pre.admin) :
                   normalizeTxnId(pre.admin[i].txn_id) = normalizeTxnId(c.txn) }
        idx == IF hit = {} THEN 0 ELSE CHOOSE i \in hit : \A j \in hit : j <= i
        balance == IF pre.bal[c.user] = NoRow THEN 0 ELSE pre.bal[c.user]
        Same(r) == Visible(r, pre.bal, pre.admin, pre.wd)
    IN CASE c.op = "register" ->
              IF isBlankTxn(normalizeTxnId(c.txn)) THEN Same("Transaction ID is required.")
              ELSE IF c.amount <= 0 THEN Same("Amount must be greater than 0.")
              ELSE IF idx # 0 THEN Same("This transaction ID already exists in the system.")
              ELSE Visible("ok", pre.bal,
                           Append(pre.admin, [txn_id |-> trimTxnId(c.txn), amount |-> c.amount,
                                              status |-> "AVAILABLE", claimed_by_user_id |-> ""]),
                           pre.wd)
         [] c.op = "claim" ->
              IF isBlankTxn(normalizeTxnId(c.txn)) THEN Same("Transaction ID is required.")
              ELSE IF idx = 0 THEN Same("Transaction ID not registered by admin yet.")
              ELSE IF pre.admin[idx].status = "CLAIMED" THEN Same(AlreadyUsed)
              ELSE Visible("ok", [pre.bal EXCEPT ![c.user] = balance + pre.admin[idx].amount],
                           [pre.admin EXCEPT ![idx].status = "CLAIMED"], pre.wd)
         [] c.op = "spend" ->
              IF c.amount <= 0 THEN Same("Amount must be greater than 0.")
              ELSE IF balance < c.amount THEN Same(NotEnough)
              ELSE Visible("ok", [pre.bal EXCEPT ![c.user] = balance - c.amount],
                           pre.admin, pre.wd)
         [] c.op = "credit" ->
              IF c.amount <= 0 THEN Same("Amount must be greater than 0.")
              ELSE Visible("ok", [pre.bal EXCEPT ![c.user] = balance + c.amount],
                           pre.admin, pre.wd)
         [] c.op = "withdraw" ->
              IF c.err # "" THEN Same(c.err)
              ELSE IF balance < c.amount THEN Same(NotEnough)
              ELSE Visible("ok", [pre.bal EXCEPT ![c.user] = balance - c.amount], pre.admin,
                           Append(pre.wd, [user_id |-> c.user, amount |-> c.amount,
                                           status |-> "PENDING"]))
         [] OTHER ->
              IF c.ref > Len(pre.wd) THEN Same("Request not found.")
              ELSE IF pre.wd[c.ref].status = "PAID" THEN Same(AlreadyPaid)
              ELSE Visible("ok", pre.bal, pre.admin, [pre.wd EXCEPT ![c.ref].status = "PAID"])

TablesNow == [bal |-> wbal, admin |-> wadmin, wd |-> wwd]

WalletCall(op, user, amount, txn, ref, err) ==
    [op |-> op, user |-> user, amount |-> amount, txn |-> txn, ref |-> ref, err |-> err]

\* what the caller of process p sees once the step is over
Seen(p) == Visible(wreq[p].out, wbal, wadmin, wwd)

\* C37: run one after the other and without storage faults, the calls of the
\* database-backed wallet store return what the file-backed store returns for
\* them and leave the same balances, deposit statuses and withdrawal statuses
C37_StoresAgree ==
    [][\A p \in WProcSet :
         /\ \* a call that went through storage calls of its own returns
            (/\ wreq[p].pc \notin {"idle", "done"}
             /\ wreq'[p].pc = "done"
             /\ wfaults' = 0
             /\ wreq[p].pre.alone
             /\ wops = wreq[p].n)
              => Seen(p)' = FileOutcome(WalletCall(wreq[p].op, wreq[p].user, wreq[p].amount,
                                                  wreq[p].txn, wreq[p].ref, ""),
                                       wreq[p].pre)
         /\ \* a call that returns at once, and every call of the file-backed store
            (/\ wfaults = 0
             /\ wreq'[p].pc = "done"
             /\ wops' = wops + 1
             /\ wreq'[p].n = wops'
             /\ wreq'[p].pre.alone)
              => /\ \A raw \in TxnInputs, a \in Amounts :
                      (registerIncomingPayment(p, raw, a) \/ file_registerIncomingPayment(p, raw, a))
                        => Seen(p)' = FileOutcome(WalletCall("register", "u1", a, raw, 0, ""),
                                                 TablesNow)
                 /\ \A u \in Users, raw \in TxnInputs :
                      (claimCreditsByTxnId(p, u, raw) \/ file_claimCreditsByTxnId(p, u, raw))
                        => Seen(p)' = FileOutcome(WalletCall("claim", u, 0, raw, 0, ""), TablesNow)
                 /\ \A u \in Users, a \in Amounts :
                      (spendCredits(p, u, a) \/ file_spendCredits(p, u, a))
                        => Seen(p)' = FileOutcome(WalletCall("spend", u, a, IdleReq.txn, 0, ""),
                                                 TablesNow)
                 /\ \A u \in Users, a \in Amounts :
                      (adminCreditWallet(p, u, a) \/ file_adminCreditWallet(p, u, a))
                        => Seen(p)' = FileOutcome(WalletCall("credit", u, a, IdleReq.txn, 0, ""),
                                                 TablesNow)
                 /\ \A u \in Users, w \in WithdrawalInputs :
                      (\/ requestWithdrawal(p, u, w.upiIdInput, w.amountInput)
                       \/ file_requestWithdrawal(p, u, w.upiIdInput, w.amountInput))
                        => Seen(p)' = FileOutcome(
                                         WalletCall("withdraw", u, w.amountInput.whole, IdleReq.txn, 0,
                                                    withdrawalInputError(w.upiIdInput, w.amountInput)),
                                         TablesNow)
                 /\ \A r \in 1..(Len(wwd) + 1) :
                      (markWithdrawalPaid(p, r) \/ file_markWithdrawalPaid(p, r))
                        => Seen(p)' = FileOutcome(WalletCall("paid", "u1", 0, IdleReq.txn, r, ""),
                                                 TablesNow)]_vars

\* the database-backed store has run two calls one after the other, the
\* second a claim that credited the deposit
C37_Witness ==
    \E p \in WProcSet :
        /\ wimpl = "supabase"
        /\ wfaults = 0
        /\ wreq[p].pc = "done" /\ wreq[p].n = 2 /\ wreq[p].op = "claim" /\ wreq[p].out = "ok"
        /\ \A q \in WProcSet \ {p} : wreq[q].pc = "idle"

\* C38: for every user the successful debits (spendCredits, requestWithdrawal)
\* add up to no more than the amounts credited to the user, also when debits
\* of one user overlap in the database-backed store; stated once every call
\* has returned and for runs without a storage error
C38_DebitsWithinCredits ==
    (WQuiescent /\ wfaults = 0) => \A u \in Users : wnet[u] >= 0

(***************************************************************************)
(* Properties, rows on their way out and the frame of an update.           *)
(***************************************************************************)
\* the rows inserted for a user who cannot pay the fee, by a request other
\* than q that has not yet taken them back
DoomedRows(q) ==
    { row \in db : \E p \in WProcSet \ {q} :
                      /\ breq[p].mode = "book"
                      /\ breq[p].pc \in {"b_spend", "b_rollback"}
                      /\ breq[p].poor
                      /\ breq[p].id = row.id }

\* C39: in the database-backed booking route a request is refused as full or
\* for a name conflict only on the strength of rows that stay: the rows that
\* the fee rollback of another request is about to remove left aside, a
\* booked name or the lack of a free slot is still there
C39_DoomedRowNeverBlocks ==
    [][\A q \in WProcSet :
         (/\ breq[q].pc = "b_select"
          /\ breq'[q].pc = "done"
          /\ wfaults' = 0
          /\ breq'[q].out \in {NameConflict, TournamentFull})
           => \E live \in {rowsOfTournament(breq[q].t) \ DoomedRows(q)} :
                IF breq'[q].out = NameConflict
                  THEN \E row \in live :
                         Letters(breq[q].members)
                           \cap Letters(<<row.player_name>> \o row.team_members) # {}
                  ELSE \/ breq[q].trow.status = "COMPLETED"
                       \/ Cardinality(live) + breq[q].trow.manual_sold_slots
                            >= breq[q].trow.max_slots]_vars

\* what an update of the team members may not touch in a stored booking
FixedOfBooking(b) == [id |-> b.id, tournamentId |-> b.tournamentId, userId |-> b.userId,
                      slotNumber |-> b.slotNumber]

FixedOfRow(row) == [id |-> row.id, tournament_id |-> row.tournament_id,
                    user_id |-> row.user_id, slot_number |-> row.slot_number]

\* C40: a successful update of the team members changes playerName,
\* teamMembers and teamSize of the booking it names and nothing else: the
\* booking keeps id, tournament, user and slot number, every other booking is
\* as it was, and so are bookedCount, manualSoldSlots and status of every
\* tournament, as stored and as the store reads them
C40_UpdateTouchesOnlyTheTeam ==
    [][/\ (/\ wimpl = "file"
           /\ fops' = fops + 1
           /\ fout'.op = "updateBookingTeamMembers"
           /\ fout'.ok)
            => /\ Len(fb') = Len(fb)
               /\ \A i \in 1..Len(fb) :
                     /\ FixedOfBooking(fb'[i]) = FixedOfBooking(fb[i])
                     /\ fb[i].id # fout'.id => fb'[i] = fb[i]
               /\ DOMAIN ft' = DOMAIN ft
               /\ \A t \in DOMAIN ft :
                     /\ ft'[t].bookedCount = ft[t].bookedCount
                     /\ ft'[t].manualSoldSlots = ft[t].manualSoldSlots
                     /\ ft'[t].status = ft[t].status
                     /\ readStore'.tournaments[t].bookedCount = readStore.tournaments[t].bookedCount
                     /\ readStore'.tournaments[t].manualSoldSlots
                          = readStore.tournaments[t].manualSoldSlots
                     /\ readStore'.tournaments[t].status = readStore.tournaments[t].status
       /\ \A p \in WProcSet :
            (/\ breq[p].pc = "u_write"
             /\ breq'[p].pc = "done"
             /\ breq'[p].out = "ok")
              => /\ { FixedOfRow(row) : row \in db' } = { FixedOfRow(row) : row \in db }
                 /\ Cardinality(db') = Cardinality(db)
                 /\ \A row \in db : row.id # breq[p].id => row \in db'
                 /\ dt' = dt]_vars

\* an update has rewritten the team of a stored booking, in the file and in
\* the table
C40_Witness ==
    \/ /\ wimpl = "file"
       /\ fout.op = "updateBookingTeamMembers" /\ fout.ok
       /\ \E i \in 1..Len(fb) : fb[i].id = fout.id /\ Len(fb[i].teamMembers) = 2
       /\ Len(fb) > 1
    \/ \E p \in WProcSet :
         /\ breq[p].pc = "done" /\ breq[p].mode = "update" /\ breq[p].out = "ok"
         /\ \E row \in db : row.id = breq[p].id /\ row.team_members = breq[p].members
         /\ Cardinality(db) > 1

====
